---- MODULE Spec2Model ----
(***************************************************************************)
(* Activity ledger, leaderboard and rate limiter of the Telegram activity  *)
(* tracker.  Three storage variants are modelled, one per run:             *)
(*   "file"  the JSON-file data manager (getUser, updateUser,              *)
(*           incrementUserActivity, getLeaderboard, backups),              *)
(*   "mem"   the in-memory Map bot,                                        *)
(*   "sql"   the Postgres bot (several instances sharing one table),       *)
(* and the sliding-window rate limiter of the data manager ("rate").       *)
(* Timestamps are integers (milliseconds of the wall clock).               *)
(***************************************************************************)
EXTENDS Integers, Sequences, FiniteSets, TLC

VARIABLES
    variant,       \* which program runs: "file", "mem", "sql", "rate", "classify" or "poll"
    now,           \* the wall clock, Date.now()
    userData,      \* data manager: the userData object
    dataFile,      \* data manager: content of userData.json
    backups,       \* data manager: files of the backups directory, by name
    ret,           \* the last call and what it returned or threw
    rateLimits,    \* data manager: Map identifier -> request timestamps
    limit,         \* the limit argument the caller passes to checkRateLimit
    windowMs,      \* the windowMs argument the caller passes
    accepted,      \* history: every timestamp checkRateLimit accepted, per identifier
    calls,         \* history: number of checkRateLimit calls and time of the first, per identifier
    userActivity,  \* in-memory bot: Map userId -> record
    rows,          \* SQL bot: the users table, by id
    pc,            \* SQL bot: per instance, the await the message handler is at
    cur,           \* SQL bot: per instance, the message being handled
    counted,       \* history: the increments the users table completed, per user and column
    isActiveInstance,  \* SQL bot start-up: the flag of simple-bot.js
    pollingInterval,   \* SQL bot start-up: TRUE while the instance check interval is set
    retryCount,        \* SQL bot start-up: the retry counter of simple-bot.js
    proc           \* SQL bot start-up: the build, where its start-up is, how it exited

pollerVars == <<isActiveInstance, pollingInterval, retryCount, proc>>

vars == <<variant, now, userData, dataFile, backups, ret, rateLimits, limit,
          windowMs, accepted, calls, userActivity, rows, pc, cur, counted, pollerVars>>

\* ------------------------------------------------------------------ bounds
MaxUsers == 1
MaxCount == 1
MaxTime == 1
MaxBackups == 1

UserIds == 1..MaxUsers
\* the limits getLeaderboard is asked for; 10 is its default
DefaultLimit == 10
Limits == 0..MaxUsers + 1 \cup {DefaultLimit}
Times == 0..MaxTime

Null == "null"
Undefined == "undefined"
\* what msg.from.first_name / msg.from.username can be
NameInputs == {Undefined, "ann"}

NoFile == [exists |-> FALSE]
NoMessage == [from |-> 0]
NoRet == [op |-> "none", user |-> 0, threw |-> FALSE]

\* the start-up variables of a run that is not about start-up
NoProc == [build |-> "none"]

PollerOff ==
    /\ isActiveInstance = FALSE
    /\ pollingInterval = FALSE
    /\ retryCount = 0
    /\ proc = NoProc

\* ------------------------------------------------- data manager: state
InitialAnalytics ==
    [totalInteractions |-> 0,
     commandUsage |-> << >>,
     dailyStats |-> << >>,
     hourlyStats |-> << >>,
     messageTypes |-> [t \in {"text", "sticker", "photo", "video", "document", "voice", "other"} |-> 0]]

InitialUserData ==
    [has |-> TRUE,
     users |-> << >>,
     analytics |-> InitialAnalytics,
     metadata |-> [lastSaved |-> Null, version |-> "2.0.0", created |-> 0]]

\* A parsed JSON document that has none of the users / analytics / metadata keys.
BareObject ==
    [has |-> FALSE, users |-> << >>, analytics |-> InitialAnalytics,
     metadata |-> [lastSaved |-> Null, version |-> Undefined, created |-> Undefined]]

NewUser(userId, t) ==
    [id |-> userId,
     messageCount |-> 0,
     stickerCount |-> 0,
     totalActivity |-> 0,
     firstSeen |-> t,
     lastSeen |-> t,
     username |-> Null,
     firstName |-> Null]

HasUser(data, userId) == userId \in DOMAIN data.users

\* getUser: the userData after the call (a record is created only when absent).
GetUserAlwaysCreates(data, userId, t) ==
    [data EXCEPT !.users =
        [u \in DOMAIN data.users \cup {userId} |-> IF u = userId THEN NewUser(userId, t) ELSE data.users[u]]]

GetUserData(data, userId, t) ==
    IF HasUser(data, userId)
    THEN data
    ELSE [data EXCEPT !.users =
            [u \in DOMAIN data.users \cup {userId} |->
                IF u = userId THEN NewUser(userId, t) ELSE data.users[u]]]

\* Object.assign(user, updates): every key of updates is written, new ones included
Assign(user, updates) ==
    [f \in DOMAIN user \cup DOMAIN updates |->
        IF f \in DOMAIN updates THEN updates[f] ELSE user[f]]

UpdatedUserNoRecompute(user, updates, t) ==
    [Assign(user, updates) EXCEPT !.lastSeen = t]

UpdatedUserKeepsLastSeen(user, updates, t) ==
    LET a == Assign(user, updates)
    IN  [a EXCEPT !.totalActivity = a.messageCount + a.stickerCount]

UpdatedUserClearsStickers(user, updates, t) ==
    LET a == Assign(user, updates)
    IN  [a EXCEPT !.lastSeen = t, !.stickerCount = 0, !.totalActivity = a.messageCount]

UpdatedUser(user, updates, t) ==
    LET a == Assign(user, updates)
    IN  [a EXCEPT !.lastSeen = t, !.totalActivity = a.messageCount + a.stickerCount]

IncrementedUserBoth(user, type, t) ==
    [user EXCEPT !.stickerCount = @ + 1, !.messageCount = @ + 1,
                 !.totalActivity = user.messageCount + user.stickerCount + 2,
                 !.lastSeen = t]

IncrementedUser(user, type, t) ==
    LET s == IF type = "sticker" THEN user.stickerCount + 1 ELSE user.stickerCount
        m == IF type = "sticker" THEN user.messageCount ELSE user.messageCount + 1
    IN  [user EXCEPT !.stickerCount = s, !.messageCount = m,
                     !.totalActivity = m + s, !.lastSeen = t]

\* --------------------------------------------- data manager: leaderboard
RECURSIVE ValuesFrom(_, _)
\* Object.values(users): integer-like keys enumerate in ascending numeric order.
ValuesFrom(users, ids) ==
    IF ids = {} THEN << >>
    ELSE LET least == CHOOSE i \in ids : \A j \in ids : i <= j
         IN  <<users[least]>> \o ValuesFrom(users, ids \ {least})

ObjectValues(users) == ValuesFrom(users, DOMAIN users)

KeepAll(user) == TRUE

\* .filter(user => user.totalActivity > 0)
ActiveOnly(user) == user.totalActivity > 0

RECURSIVE Filter(_)
Filter(s) ==
    IF s = << >> THEN << >>
    ELSE IF ActiveOnly(Head(s)) THEN <<Head(s)>> \o Filter(Tail(s)) ELSE Filter(Tail(s))

ComesBeforeAscending(a, b) == a.totalActivity <= b.totalActivity

\* the comparator (a, b) => b.totalActivity - a.totalActivity keeps a before b
\* when the difference is <= 0 (the sort is stable)
ComesBefore(a, b) == b.totalActivity - a.totalActivity <= 0

RECURSIVE InsertSorted(_, _)
\* x was after every element of s in the input: it goes behind all it does not beat
InsertSorted(s, x) ==
    IF s = << >> THEN <<x>>
    ELSE LET last == s[Len(s)]
         IN  IF ComesBefore(last, x)
             THEN Append(s, x)
             ELSE Append(InsertSorted(SubSeq(s, 1, Len(s) - 1), x), last)

RECURSIVE SortByActivity(_)
SortByActivity(s) ==
    IF s = << >> THEN << >>
    ELSE InsertSorted(SortByActivity(SubSeq(s, 1, Len(s) - 1)), s[Len(s)])

SliceKeepsOneMore(s, k) == SubSeq(s, 1, IF k + 1 < Len(s) THEN k + 1 ELSE Len(s))

\* .slice(0, limit), limit >= 0
Slice(s, k) == SubSeq(s, 1, IF k < Len(s) THEN k ELSE Len(s))

\* .map((user, index) => ({rank: index + 1, ...user})): the record's own fields
\* are spread over the rank
WithRank(s) ==
    [i \in 1..Len(s) |->
        [f \in {"rank"} \cup DOMAIN s[i] |-> IF f \in DOMAIN s[i] THEN s[i][f] ELSE i]]

GetLeaderboard(users, k) == WithRank(Slice(SortByActivity(Filter(ObjectValues(users))), k))

\* ------------------------------------------------ data manager: files
\* saveData: metadata.lastSaved is stamped, then the whole object is written; on a
\* userData without metadata the stamp throws inside the try and nothing happens.
SavedData(data, t) ==
    IF data.has THEN [data EXCEPT !.metadata.lastSaved = t] ELSE data

\* JSON.parse(JSON.stringify(x)) of a record: a key whose value is undefined is
\* left out of the text, so the parsed record does not have it
\* (of the keys of a record, the display names are the ones the bot writes undefined to)
DisplayKeys == {"username", "firstName"}

JsonRecord(user) ==
    IF \A k \in DisplayKeys \cap DOMAIN user : user[k] # Undefined
    THEN user
    ELSE [f \in {k \in DOMAIN user : ~(k \in DisplayKeys /\ user[k] = Undefined)} |-> user[f]]

JsonData(data) ==
    IF data.has
    THEN [data EXCEPT !.users = [u \in DOMAIN data.users |-> JsonRecord(data.users[u])]]
    ELSE data

\* reading a key of a record: undefined when the record does not have it
Field(user, f) == IF f \in DOMAIN user THEN user[f] ELSE Undefined

\* a flush that leaves a data file that is already there as it is
SavedFileKeepsOld(data, file, t) ==
    IF data.has /\ ~file.exists
    THEN [exists |-> TRUE, parses |-> TRUE, data |-> JsonData(SavedData(data, t))]
    ELSE file

SavedFile(data, file, t) ==
    IF data.has
    THEN [exists |-> TRUE, parses |-> TRUE, data |-> JsonData(SavedData(data, t))]
    ELSE file

\* loadData's { ...userData, ...data }: every top-level key of the parsed file
\* replaces the one of the fresh object
MergedKeepsCurrent(data, parsed) == data

Merged(data, parsed) == IF parsed.has THEN parsed ELSE data

\* loadData: a missing file leaves the fresh object, an unparseable one is caught
LoadedData(data, file) ==
    IF file.exists /\ file.parses THEN Merged(data, file.data) ELSE data

\* SIGINT / SIGTERM: saveData(), then process.exit(0)
FileAtExitUnsaved(data, file, t) == file

FileAtExit(data, file, t) == SavedFile(data, file, t)

\* The files restoreBackup can be pointed at that createBackup did not write:
\* one that is not JSON, and a JSON document without users/analytics/metadata.
ForeignKinds == {"unparseable", "bare"}

ForeignFile(kind) ==
    IF kind = "unparseable"
    THEN [exists |-> TRUE, parses |-> FALSE, data |-> BareObject]
    ELSE [exists |-> TRUE, parses |-> TRUE, data |-> BareObject]

KeepBackups == 10

\* a rotation that sorts the names without reversing them
RotatedOutNewest(names) ==
    {n \in names : Cardinality({m \in names : m < n}) >= KeepBackups}

\* .sort().reverse() of the backup names, then .slice(10): the names unlinked
RotatedOut(names) ==
    {n \in names : Cardinality({m \in names : m > n}) >= KeepBackups}

\* ---------------------------------------------- data manager: actions
\* Every call reads the wall clock once; the clock never runs backwards.
Clock(t) == t \in now..MaxTime /\ now' = t

FileFrame == UNCHANGED <<variant, rateLimits, limit, windowMs, accepted, calls,
                         userActivity, rows, pc, cur, counted, pollerVars>>

Threw(op, userId) == [op |-> op, user |-> userId, threw |-> TRUE]

GetUser(userId) ==
    /\ variant = "file"
    /\ \E t \in Times :
        /\ Clock(t)
        /\ IF userData.has
           THEN /\ userData' = GetUserData(userData, userId, t)
                /\ ret' = [op |-> "getUser", user |-> userId, threw |-> FALSE,
                           created |-> ~HasUser(userData, userId),
                           again |-> ret.op = "getUser" /\ ret.user = userId]
           ELSE /\ UNCHANGED userData
                /\ ret' = Threw("getUser", userId)
    /\ UNCHANGED <<dataFile, backups>>
    /\ FileFrame

UpdateUser(userId, updates) ==
    /\ variant = "file"
    /\ \E t \in Times :
        /\ Clock(t)
        /\ IF userData.has
           THEN LET got == GetUserData(userData, userId, t)
                IN  /\ userData' = [got EXCEPT !.users[userId] = UpdatedUser(@, updates, t)]
                    /\ ret' = [op |-> "updateUser", user |-> userId, threw |-> FALSE,
                               updates |-> updates]
           ELSE /\ UNCHANGED userData
                /\ ret' = Threw("updateUser", userId)
    /\ UNCHANGED <<dataFile, backups>>
    /\ FileFrame

IncrementUserActivity(userId, type) ==
    /\ variant = "file"
    /\ \E t \in Times :
        /\ Clock(t)
        /\ IF userData.has
           THEN LET got == GetUserData(userData, userId, t)
                IN  /\ got.users[userId].messageCount < MaxCount
                    /\ got.users[userId].stickerCount < MaxCount
                    /\ userData' = [got EXCEPT !.users[userId] = IncrementedUser(@, type, t)]
                    /\ ret' = [op |-> "incrementUserActivity", user |-> userId,
                               threw |-> FALSE, type |-> type]
           ELSE /\ UNCHANGED userData
                /\ ret' = Threw("incrementUserActivity", userId)
    /\ UNCHANGED <<dataFile, backups>>
    /\ FileFrame

Leaderboard(k) ==
    /\ variant = "file"
    /\ UNCHANGED <<now, userData, dataFile, backups>>
    /\ ret' = IF userData.has
              THEN [op |-> "getLeaderboard", user |-> 0, threw |-> FALSE, k |-> k,
                    val |-> GetLeaderboard(userData.users, k)]
              ELSE Threw("getLeaderboard", 0)
    /\ FileFrame

SaveData ==
    /\ variant = "file"
    /\ \E t \in Times :
        /\ Clock(t)
        /\ userData' = SavedData(userData, t)
        /\ dataFile' = SavedFile(userData, dataFile, t)
    /\ ret' = [op |-> "saveData", user |-> 0, threw |-> FALSE, wrote |-> userData.has]
    /\ UNCHANGED backups
    /\ FileFrame

\* the process receives SIGINT or SIGTERM: it saves and exits
Shutdown ==
    /\ variant = "file"
    /\ \E t \in Times :
        /\ Clock(t)
        /\ userData' = SavedData(userData, t)
        /\ dataFile' = FileAtExit(userData, dataFile, t)
    /\ ret' = [op |-> "shutdown", user |-> 0, threw |-> FALSE, wrote |-> userData.has]
    /\ UNCHANGED backups
    /\ FileFrame

\* whether the process runs: after process.exit only a restart follows
Running == ret.op # "shutdown"

\* the process starts, after an exit or a crash: the module builds its fresh
\* userData and calls loadData()
Restart ==
    /\ variant = "file"
    /\ \E t \in Times :
        /\ Clock(t)
        /\ userData' = LoadedData([InitialUserData EXCEPT !.metadata.created = t], dataFile)
    /\ ret' = [op |-> "restart", user |-> 0, threw |-> FALSE,
               afterSave |-> ret.op \in {"saveData", "shutdown"} /\ ret.wrote]
    /\ UNCHANGED <<dataFile, backups>>
    /\ FileFrame

\* createBackup with the clock read in times and room for cap files: the file is
\* written under the name of its millisecond, then all but the ten newest names
\* are unlinked
CreateBackupWithin(times, cap) ==
    /\ variant = "file"
    /\ \E t \in times :
        /\ now <= t
        /\ now' = t
        /\ IF userData.has
           THEN /\ t \in DOMAIN backups \/ Cardinality(DOMAIN backups) < cap
                /\ LET written == [n \in DOMAIN backups \cup {t} |->
                                      IF n = t THEN JsonData(userData) ELSE backups[n]]
                   IN  /\ backups' = [n \in DOMAIN written \ RotatedOut(DOMAIN written) |-> written[n]]
                       /\ ret' = [op |-> "createBackup", user |-> 0, threw |-> FALSE,
                                  val |-> t, made |-> TRUE,
                                  removed |-> RotatedOut(DOMAIN written)]
           ELSE /\ UNCHANGED backups
                /\ ret' = [op |-> "createBackup", user |-> 0, threw |-> FALSE,
                           val |-> Null, made |-> FALSE, removed |-> {}]
    /\ UNCHANGED <<userData, dataFile>>
    /\ FileFrame

CreateBackup == CreateBackupWithin(Times, MaxBackups)

\* the records of a userData object; none when it has no users key
UsersOf(data) == IF data.has THEN data.users ELSE << >>

\* the users whose record has a smaller counter in backupData than in data
LoweredBy(data, backupData) ==
    {u \in DOMAIN UsersOf(data) \cap DOMAIN UsersOf(backupData) :
        \/ backupData.users[u].messageCount < data.users[u].messageCount
        \/ backupData.users[u].stickerCount < data.users[u].stickerCount}

\* a restore that keeps the records the backup does not name
RestoredOverCurrent(data, backupData) ==
    IF data.has /\ backupData.has
    THEN [backupData EXCEPT !.users =
             [u \in DOMAIN data.users \cup DOMAIN backupData.users |->
                 IF u \in DOMAIN backupData.users THEN backupData.users[u] ELSE data.users[u]]]
    ELSE backupData

\* userData = backupData: the parsed document replaces the whole object
Restored(data, backupData) == backupData

\* restoreBackup on a file: missing or unparseable -> false, nothing changes;
\* otherwise userData becomes whatever was parsed, then saveData() runs.
Restore(file, name) ==
    /\ variant = "file"
    /\ \E t \in Times :
        /\ Clock(t)
        /\ IF file.exists /\ file.parses
           THEN /\ userData' = SavedData(Restored(userData, file.data), t)
                /\ dataFile' = SavedFile(Restored(userData, file.data), dataFile, t)
                /\ ret' = [op |-> "restoreBackup", user |-> 0, threw |-> FALSE,
                           file |-> name, val |-> TRUE,
                           dropped |-> DOMAIN UsersOf(userData) \ DOMAIN UsersOf(file.data),
                           lowered |-> LoweredBy(userData, file.data)]
           ELSE /\ UNCHANGED <<userData, dataFile>>
                /\ ret' = [op |-> "restoreBackup", user |-> 0, threw |-> FALSE,
                           file |-> name, val |-> FALSE]
    /\ UNCHANGED backups
    /\ FileFrame

RestoreBackup(n) ==
    Restore(IF n \in DOMAIN backups
            THEN [exists |-> TRUE, parses |-> TRUE, data |-> backups[n]]
            ELSE NoFile,
            <<"backup", n>>)

RestoreForeign(kind) == Restore(ForeignFile(kind), <<kind, 0>>)

\* the patches updateUser is given: the bot's display fields, and the counters
PatchValues == {0, MaxCount}

CounterUpdates ==
    {[messageCount |-> m] : m \in PatchValues}
    \cup {[stickerCount |-> c] : c \in PatchValues}
    \cup {[totalActivity |-> a] : a \in PatchValues}
    \cup {[messageCount |-> MaxCount, stickerCount |-> 0, totalActivity |-> 0]}

\* a patch may name any key: one that names rank
RankUpdates == {[rank |-> 0]}

Updates == CounterUpdates \cup RankUpdates

InitFile ==
    /\ variant = "file"
    /\ now = 0
    /\ userData = InitialUserData
    /\ dataFile = NoFile
    /\ backups = << >>
    /\ ret = NoRet
    /\ rateLimits = << >>
    /\ limit = 0
    /\ windowMs = 0
    /\ accepted = << >>
    /\ calls = << >>
    /\ userActivity = << >>
    /\ rows = << >>
    /\ pc = << >>
    /\ cur = << >>
    /\ counted = << >>
    /\ PollerOff

NextFile ==
    \/ \E u \in UserIds : GetUser(u)
    \/ \E u \in UserIds, p \in Updates : UpdateUser(u, p)
    \/ \E u \in UserIds, type \in {"sticker", "text", "photo"} : IncrementUserActivity(u, type)
    \/ \E k \in Limits : Leaderboard(k)
    \/ \E kind \in ForeignKinds : RestoreForeign(kind)

SpecFile == InitFile /\ [][NextFile]_vars

\* the data manager with its files: saves, backups and restores
\* a patch that names a counter
ResetUpdates == {[messageCount |-> 0]}

NextBackup ==
    \/ \E u \in UserIds : GetUser(u)
    \/ \E u \in UserIds, p \in ResetUpdates : UpdateUser(u, p)
    \/ \E u \in UserIds, type \in {"sticker", "text"} : IncrementUserActivity(u, type)
    \/ CreateBackup
    \/ \E n \in Times : RestoreBackup(n)
    \/ \E kind \in ForeignKinds : RestoreForeign(kind)

\* Backups copy and replace whole objects, whatever the timestamps in them: the
\* backup specification runs within one reading of the clock, so a second
\* createBackup writes the file of the first again.
InitBackup ==
    /\ variant = "file"
    /\ now = MaxTime
    /\ userData = InitialUserData
    /\ dataFile = NoFile
    /\ backups = << >>
    /\ ret = NoRet
    /\ rateLimits = << >>
    /\ limit = 0
    /\ windowMs = 0
    /\ accepted = << >>
    /\ calls = << >>
    /\ userActivity = << >>
    /\ rows = << >>
    /\ pc = << >>
    /\ cur = << >>
    /\ counted = << >>
    /\ PollerOff

SpecBackup == InitBackup /\ [][NextBackup]_vars

\* updateUser copies every key of its patch: patches that name a timestamp of
\* the record, next to the display patch the bot sends
TimestampUpdates == {[firstSeen |-> t] : t \in Times}

DisplayUpdates == {[username |-> n, firstName |-> n] : n \in NameInputs}

NextPatch ==
    \/ \E u \in UserIds : GetUser(u)
    \/ \E u \in UserIds, p \in TimestampUpdates \cup DisplayUpdates : UpdateUser(u, p)
    \/ \E u \in UserIds, type \in {"sticker", "text"} : IncrementUserActivity(u, type)

SpecPatch == InitFile /\ [][NextPatch]_vars

\* ------------------------------------------------------- rate limiter
MaxIds == 1
MaxClock == 3
MaxLimit == 3
MaxWindow == 2
MaxCalls == 4

Identifiers == 1..MaxIds

RECURSIVE RequestsOfAll(_, _)
\* one list of timestamps for all identifiers
RequestsOfAll(limits, identifier) ==
    IF DOMAIN limits = {} THEN << >>
    ELSE LET i == CHOOSE j \in DOMAIN limits : \A k \in DOMAIN limits : j <= k
         IN  limits[i] \o RequestsOfAll([k \in DOMAIN limits \ {i} |-> limits[k]], identifier)

\* the timestamps stored for an identifier (none before its first call)
Requests(limits, identifier) ==
    IF identifier \in DOMAIN limits THEN limits[identifier] ELSE << >>

RECURSIVE ValidRequestsInclusive(_, _)
ValidRequestsInclusive(requests, windowStart) ==
    IF requests = << >> THEN << >>
    ELSE IF Head(requests) >= windowStart
         THEN <<Head(requests)>> \o ValidRequestsInclusive(Tail(requests), windowStart)
         ELSE ValidRequestsInclusive(Tail(requests), windowStart)

RECURSIVE ValidRequests(_, _)
\* requests.filter(time => time > windowStart)
ValidRequests(requests, windowStart) ==
    IF requests = << >> THEN << >>
    ELSE IF Head(requests) > windowStart
         THEN <<Head(requests)>> \o ValidRequests(Tail(requests), windowStart)
         ELSE ValidRequests(Tail(requests), windowStart)

LimitExceeded(validRequests, lim) == Len(validRequests) > lim

\* validRequests.length >= limit
LimitReached(validRequests, lim) == Len(validRequests) >= lim

RejectedRecorded(requests, validRequests, t) == Append(validRequests, t)

\* on rejection the function returns before anything is stored
RejectedRequests(requests, validRequests, t) == requests

\* checkRateLimit: <<what it returns, the rateLimits map afterwards>>
CheckRateLimit(limits, identifier, lim, window, t) ==
    LET windowStart == t - window
        requests == Requests(limits, identifier)
        validRequests == ValidRequests(requests, windowStart)
        Stored(list) == [i \in DOMAIN limits \cup {identifier} |->
                            IF i = identifier THEN list ELSE limits[i]]
    IN  IF LimitReached(validRequests, lim)
        THEN <<FALSE, Stored(RejectedRequests(requests, validRequests, t))>>
        ELSE <<TRUE, Stored(Append(validRequests, t))>>

NoCalls == [n |-> 0, first |-> 0]

CallsOf(identifier) == IF identifier \in DOMAIN calls THEN calls[identifier] ELSE NoCalls

AcceptedOf(identifier) == IF identifier \in DOMAIN accepted THEN accepted[identifier] ELSE << >>

RateLimitCall(identifier) ==
    /\ variant = "rate"
    /\ CallsOf(identifier).n < MaxCalls
    /\ \E t \in now..MaxClock :
        LET r == CheckRateLimit(rateLimits, identifier, limit, windowMs, t)
        IN  /\ now' = t
            /\ rateLimits' = r[2]
            /\ ret' = [op |-> "checkRateLimit", user |-> identifier, threw |-> FALSE,
                       t |-> t, val |-> r[1]]
            /\ accepted' = [i \in DOMAIN accepted \cup {identifier} |->
                              IF i = identifier
                              THEN (IF r[1] THEN Append(AcceptedOf(i), t) ELSE AcceptedOf(i))
                              ELSE accepted[i]]
            /\ calls' = [i \in DOMAIN calls \cup {identifier} |->
                           IF i = identifier
                           THEN [n |-> CallsOf(i).n + 1,
                                 first |-> IF CallsOf(i).n = 0 THEN t ELSE CallsOf(i).first]
                           ELSE calls[i]]
    /\ UNCHANGED <<variant, userData, dataFile, backups, limit, windowMs,
                   userActivity, rows, pc, cur, counted, pollerVars>>

\* the caller fixes limit and windowMs; every pair within the bounds is checked
InitRate ==
    /\ variant = "rate"
    /\ now = 0
    /\ userData = InitialUserData
    /\ dataFile = NoFile
    /\ backups = << >>
    /\ ret = NoRet
    /\ rateLimits = << >>
    /\ limit \in 0..MaxLimit
    /\ windowMs \in 1..MaxWindow
    /\ accepted = << >>
    /\ calls = << >>
    /\ userActivity = << >>
    /\ rows = << >>
    /\ pc = << >>
    /\ cur = << >>
    /\ counted = << >>
    /\ PollerOff

NextRate == \E identifier \in Identifiers : RateLimitCall(identifier)

SpecRate == InitRate /\ [][NextRate]_vars

\* ------------------------------------------- rate limiter: two identifiers
\* Calls for several identifiers, interleaved, under one limit and window.
MaxPairIds == 2
MaxPairCalls == 3

PairIdentifiers == 1..MaxPairIds

RECURSIVE TotalCalls(_)
TotalCalls(ids) ==
    IF ids = {} THEN 0
    ELSE LET i == CHOOSE j \in ids : TRUE IN CallsOf(i).n + TotalCalls(ids \ {i})

NextRatePair ==
    \E identifier \in PairIdentifiers :
        /\ TotalCalls(DOMAIN calls) < MaxPairCalls
        /\ RateLimitCall(identifier)

SpecRatePair == InitRate /\ [][NextRatePair]_vars

\* ------------------------------------------------------ inbound messages
\* msg.text: none, plain text, or a command
TextInputs == {Undefined, "hi", "/start"}

\* a message of the transport: its sender, whether it carries a sticker, its text
Messages ==
    [from : UserIds, sticker : BOOLEAN, text : TextInputs,
     first_name : NameInputs, username : NameInputs]

\* the texts that start with '/'
SlashTexts == {"/start", "/myprogress"}

\* msg.text && msg.text.startsWith('/')
IsCommand(msg) == msg.text # Undefined /\ msg.text \in SlashTexts

\* x || fallback, for a string or undefined x
OrElse(x, fallback) == IF x = Undefined \/ x = "" THEN fallback ELSE x

\* ------------------------------------------------------- in-memory bot
MemNewUser == [messageCount |-> 0, stickerCount |-> 0, firstName |-> "", username |-> ""]

MemGetUser(activity, userId) ==
    IF userId \in DOMAIN activity
    THEN activity
    ELSE [u \in DOMAIN activity \cup {userId} |->
             IF u = userId THEN MemNewUser ELSE activity[u]]

MemCountedAlways(user, msg) ==
    IF msg.sticker THEN [user EXCEPT !.stickerCount = @ + 1]
    ELSE [user EXCEPT !.messageCount = @ + 1]

\* if (msg.sticker) stickerCount += 1; else if (msg.text) messageCount += 1
MemCounted(user, msg) ==
    IF msg.sticker THEN [user EXCEPT !.stickerCount = @ + 1]
    ELSE IF msg.text # Undefined THEN [user EXCEPT !.messageCount = @ + 1]
    ELSE user

\* bot.on('message'): commands are skipped
MemOnMessage(activity, msg) ==
    IF IsCommand(msg) THEN activity
    ELSE LET got == MemGetUser(activity, msg.from)
             user == got[msg.from]
             named == [user EXCEPT !.firstName = OrElse(msg.first_name, user.firstName),
                                   !.username = OrElse(msg.username, user.username)]
         IN  [got EXCEPT ![msg.from] = MemCounted(named, msg)]

\* bot.onText(/\/start/)
MemOnStart(activity, msg) ==
    IF msg.text = "/start"
    THEN LET got == MemGetUser(activity, msg.from)
         IN  [got EXCEPT ![msg.from].firstName = OrElse(msg.first_name, ""),
                         ![msg.from].username = OrElse(msg.username, "")]
    ELSE activity

MemCount(activity, userId, field) ==
    IF userId \in DOMAIN activity THEN activity[userId][field] ELSE 0

\* one update: the 'message' listener runs, then the matching onText listeners
MemMessage(msg) ==
    /\ variant = "mem"
    /\ userActivity' = MemOnStart(MemOnMessage(userActivity, msg), msg)
    /\ MemCount(userActivity', msg.from, "messageCount") <= MaxCount
    /\ MemCount(userActivity', msg.from, "stickerCount") <= MaxCount
    /\ ret' = [op |-> "memMessage", user |-> msg.from, threw |-> FALSE, msg |-> msg]
    /\ UNCHANGED <<variant, now, userData, dataFile, backups, rateLimits, limit,
                   windowMs, accepted, calls, rows, pc, cur, counted, pollerVars>>

InitMem ==
    /\ variant = "mem"
    /\ now = 0
    /\ userData = InitialUserData
    /\ dataFile = NoFile
    /\ backups = << >>
    /\ ret = NoRet
    /\ rateLimits = << >>
    /\ limit = 0
    /\ windowMs = 0
    /\ accepted = << >>
    /\ calls = << >>
    /\ userActivity = << >>
    /\ rows = << >>
    /\ pc = << >>
    /\ cur = << >>
    /\ counted = << >>
    /\ PollerOff

NextMem == \E msg \in Messages : MemMessage(msg)

SpecMem == InitMem /\ [][NextMem]_vars

\* ------------------------------------------------------------ SQL bot
\* The users table is shared by every handler invocation; each query is one
\* atomic statement of the store, and a handler yields at every await.
MaxHandlers == 1

Handlers == 1..MaxHandlers

\* msg.from as the SQL bot reads it; an undefined parameter is stored as NULL
Profiles == {[username |-> n, first_name |-> n, last_name |-> Undefined] : n \in NameInputs}

SqlMessages == [from : UserIds, profile : Profiles, sticker : BOOLEAN, text : TextInputs]

\* the profile of a message whose upsert has been sent: it is not read again
Sent == [username |-> Undefined, first_name |-> Undefined, last_name |-> Undefined]

Param(x) == IF x = Undefined THEN Null ELSE x

\* a plain INSERT: a row with the same primary key is a unique violation
InsertConflict(table, userId) == userId \in DOMAIN table

\* ON CONFLICT (id) DO UPDATE: a row with the same primary key is updated, the
\* statement is never rejected for it
UpsertConflict(table, userId) == FALSE

\* an upsert that writes the inserted row over the existing one
CreateOrUpdateUserReplaces(table, userId, profile, t) ==
    [u \in DOMAIN table \cup {userId} |->
        IF u # userId THEN table[u]
        ELSE [id |-> userId,
              username |-> Param(profile.username),
              first_name |-> Param(profile.first_name),
              last_name |-> Param(profile.last_name),
              message_count |-> 0,
              sticker_count |-> 0,
              last_activity |-> t]]

\* an upsert that keeps a stored display value where the event supplies none
CreateOrUpdateUserCoalesce(table, userId, profile, t) ==
    [u \in DOMAIN table \cup {userId} |->
        IF u # userId THEN table[u]
        ELSE [id |-> userId,
              username |-> IF u \in DOMAIN table /\ profile.username = Undefined
                           THEN table[u].username ELSE Param(profile.username),
              first_name |-> IF u \in DOMAIN table /\ profile.first_name = Undefined
                             THEN table[u].first_name ELSE Param(profile.first_name),
              last_name |-> IF u \in DOMAIN table /\ profile.last_name = Undefined
                            THEN table[u].last_name ELSE Param(profile.last_name),
              message_count |-> IF u \in DOMAIN table THEN table[u].message_count ELSE 0,
              sticker_count |-> IF u \in DOMAIN table THEN table[u].sticker_count ELSE 0,
              last_activity |-> t]]

\* an upsert that updates the row of a known user and inserts none
CreateOrUpdateUserUpdateOnly(table, userId, profile, t) ==
    [u \in DOMAIN table |->
        IF u # userId THEN table[u]
        ELSE [table[u] EXCEPT !.username = Param(profile.username),
                              !.first_name = Param(profile.first_name),
                              !.last_name = Param(profile.last_name),
                              !.last_activity = t]]

\* INSERT ... VALUES ($1..$4, 0, 0) ON CONFLICT (id) DO UPDATE SET username,
\* first_name, last_name = EXCLUDED.*, last_activity = CURRENT_TIMESTAMP
CreateOrUpdateUser(table, userId, profile, t) ==
    [u \in DOMAIN table \cup {userId} |->
        IF u # userId THEN table[u]
        ELSE [id |-> userId,
              username |-> Param(profile.username),
              first_name |-> Param(profile.first_name),
              last_name |-> Param(profile.last_name),
              message_count |-> IF u \in DOMAIN table THEN table[u].message_count ELSE 0,
              sticker_count |-> IF u \in DOMAIN table THEN table[u].sticker_count ELSE 0,
              last_activity |-> t]]

\* an increment computed by the client from a count of 0 it read before
IncrementMessageCountFromRead(table, userId, t) ==
    [u \in DOMAIN table |->
        IF u = userId
        THEN [table[u] EXCEPT !.message_count = 1, !.last_activity = t]
        ELSE table[u]]

\* UPDATE users SET message_count = message_count + 1, last_activity = ... WHERE id = $1
IncrementMessageCount(table, userId, t) ==
    [u \in DOMAIN table |->
        IF u = userId
        THEN [table[u] EXCEPT !.message_count = @ + 1, !.last_activity = t]
        ELSE table[u]]

\* UPDATE users SET sticker_count = sticker_count + 1, last_activity = ... WHERE id = $1
IncrementStickerCount(table, userId, t) ==
    [u \in DOMAIN table |->
        IF u = userId
        THEN [table[u] EXCEPT !.sticker_count = @ + 1, !.last_activity = t]
        ELSE table[u]]

SqlIncrementedAlways(table, msg, t) ==
    IF msg.sticker THEN IncrementStickerCount(table, msg.from, t)
    ELSE IncrementMessageCount(table, msg.from, t)

\* if (msg.sticker) incrementStickerCount; else if (msg.text) incrementMessageCount
SqlIncremented(table, msg, t) ==
    IF msg.sticker THEN IncrementStickerCount(table, msg.from, t)
    ELSE IF msg.text # Undefined THEN IncrementMessageCount(table, msg.from, t)
    ELSE table

SqlFrame == UNCHANGED <<variant, userData, dataFile, backups, rateLimits, limit,
                        windowMs, accepted, calls, userActivity, pollerVars>>

\* bot.on('message') up to its first await; commands return at once
SqlReceive(h, msg) ==
    /\ variant = "sql"
    /\ pc[h] = "idle"
    /\ IF IsCommand(msg)
       THEN UNCHANGED <<pc, cur>>
       ELSE /\ pc' = [pc EXCEPT ![h] = "upsert"]
            /\ cur' = [cur EXCEPT ![h] = msg]
    /\ ret' = [op |-> "sqlMessage", user |-> msg.from, threw |-> FALSE,
               command |-> IsCommand(msg)]
    /\ UNCHANGED <<now, rows, counted>>
    /\ SqlFrame

\* await db.createOrUpdateUser(user)
\* A rejected statement throws into the handler's catch, which ends the handler.
SqlUpsert(h) ==
    /\ variant = "sql"
    /\ pc[h] = "upsert"
    /\ IF UpsertConflict(rows, cur[h].from)
       THEN /\ UNCHANGED rows
            /\ pc' = [pc EXCEPT ![h] = "idle"]
            /\ cur' = [cur EXCEPT ![h] = NoMessage]
       ELSE /\ rows' = CreateOrUpdateUser(rows, cur[h].from, cur[h].profile, now)
            /\ pc' = [pc EXCEPT ![h] = "increment"]
            /\ cur' = [cur EXCEPT ![h].profile = Sent]
    /\ ret' = [op |-> "createOrUpdateUser", user |-> cur[h].from,
               threw |-> UpsertConflict(rows, cur[h].from),
               existed |-> cur[h].from \in DOMAIN rows,
               cleared |-> {f \in {"username", "first_name", "last_name"} :
                               /\ cur[h].from \in DOMAIN rows
                               /\ rows[cur[h].from][f] # Null
                               /\ cur[h].profile[f] = Undefined}]
    /\ UNCHANGED <<now, counted>>
    /\ SqlFrame

SqlCount(table, userId, field) ==
    IF userId \in DOMAIN table THEN table[userId][field] ELSE 0

\* await db.incrementStickerCount / incrementMessageCount, then the handler ends
\* the increment statements completed for a user, per column
CountedOf(userId) ==
    IF userId \in DOMAIN counted THEN counted[userId]
    ELSE [message_count |-> 0, sticker_count |-> 0]

\* the column the handler's increment statement names; none for an event
\* without sticker or text
ColumnOf(msg) ==
    IF msg.sticker THEN "sticker_count"
    ELSE IF msg.text # Undefined THEN "message_count"
    ELSE Null

\* the statements counted per user are capped at MaxCount, or at one for every
\* instance where there are more instances than that
CountCap == IF Cardinality(DOMAIN pc) > MaxCount THEN Cardinality(DOMAIN pc) ELSE MaxCount

SqlIncrement(h) ==
    /\ variant = "sql"
    /\ pc[h] = "increment"
    /\ rows' = SqlIncremented(rows, cur[h], now)
    /\ CountedOf(cur[h].from).message_count + CountedOf(cur[h].from).sticker_count
         + (IF ColumnOf(cur[h]) = Null THEN 0 ELSE 1) <= CountCap
    /\ counted' = IF ColumnOf(cur[h]) = Null THEN counted
                  ELSE [u \in DOMAIN counted \cup {cur[h].from} |->
                           IF u = cur[h].from
                           THEN [CountedOf(u) EXCEPT ![ColumnOf(cur[h])] = @ + 1]
                           ELSE counted[u]]
    /\ pc' = [pc EXCEPT ![h] = "idle"]
    /\ cur' = [cur EXCEPT ![h] = NoMessage]
    /\ ret' = [op |-> "sqlIncrement", user |-> cur[h].from, threw |-> FALSE,
               sticker |-> cur[h].sticker, text |-> cur[h].text]
    /\ UNCHANGED now
    /\ SqlFrame

\* bot.onText(/\/start/): await db.createOrUpdateUser(user)
SqlStart(userId, profile) ==
    /\ variant = "sql"
    /\ rows' = CreateOrUpdateUser(rows, userId, profile, now)
    /\ ret' = [op |-> "sqlStart", user |-> userId, threw |-> FALSE]
    /\ UNCHANGED <<now, pc, cur, counted>>
    /\ SqlFrame

\* db.getUser: SELECT * FROM users WHERE id = $1, rows[0]
SqlGetUser(userId) ==
    /\ variant = "sql"
    /\ ret' = [op |-> "sqlGetUser", user |-> userId, threw |-> FALSE,
               found |-> userId \in DOMAIN rows]
    /\ UNCHANGED <<now, rows, pc, cur, counted>>
    /\ SqlFrame

\* the orders ORDER BY total_activity DESC may return the rows in: ties in any order
SqlTotal(row) == row.message_count + row.sticker_count

RECURSIVE SqlOrderingsOf(_, _)
SqlOrderingsOf(table, ids) ==
    IF ids = {} THEN {<< >>}
    ELSE LET top == {m \in ids : \A j \in ids : SqlTotal(table[m]) >= SqlTotal(table[j])}
         IN  UNION {{<<m>> \o rest : rest \in SqlOrderingsOf(table, ids \ {m})} : m \in top}

\* a query with WHERE message_count + sticker_count > 0
SqlOrderingsActive(table) ==
    SqlOrderingsOf(table, {u \in DOMAIN table : SqlTotal(table[u]) > 0})

SqlOrderings(table) == SqlOrderingsOf(table, DOMAIN table)

\* LIMIT $1
SqlLimit(s, k) == SubSeq(s, 1, IF k < Len(s) THEN k ELSE Len(s))

\* rows.map((row, index) => ({...row, rank: index + 1, total: row.total_activity}))
SqlRanked(table, order) ==
    [i \in 1..Len(order) |->
        [id |-> order[i],
         message_count |-> table[order[i]].message_count,
         sticker_count |-> table[order[i]].sticker_count,
         total_activity |-> SqlTotal(table[order[i]]),
         rank |-> i,
         total |-> SqlTotal(table[order[i]])]]

\* db.getLeaderboard(limit)
SqlLeaderboard(k) ==
    /\ variant = "sql"
    /\ \E order \in SqlOrderings(rows) :
          ret' = [op |-> "sqlLeaderboard", user |-> 0, threw |-> FALSE, k |-> k,
                  val |-> SqlRanked(rows, SqlLimit(order, k))]
    /\ UNCHANGED <<now, rows, pc, cur, counted>>
    /\ SqlFrame

InitSql ==
    /\ variant = "sql"
    /\ now = 0
    /\ userData = InitialUserData
    /\ dataFile = NoFile
    /\ backups = << >>
    /\ ret = NoRet
    /\ rateLimits = << >>
    /\ limit = 0
    /\ windowMs = 0
    /\ accepted = << >>
    /\ calls = << >>
    /\ userActivity = << >>
    /\ rows = << >>
    /\ pc = [h \in Handlers |-> "idle"]
    /\ cur = [h \in Handlers |-> NoMessage]
    /\ counted = << >>
    /\ PollerOff

NextSql ==
    \/ \E h \in Handlers, msg \in SqlMessages : SqlReceive(h, msg)
    \/ \E h \in Handlers : SqlUpsert(h)
    \/ \E h \in Handlers : SqlIncrement(h)
    \/ \E u \in UserIds, profile \in Profiles : SqlStart(u, profile)
    \/ \E u \in UserIds : SqlGetUser(u)

SpecSql == InitSql /\ [][NextSql]_vars

\* ------------------------------------------------ SQL bot: store outage
\* pool.query rejects when the store cannot be reached: the statement is not
\* executed, the db function lets the rejection through (it has no catch), and
\* the handler's catch logs it and ends the handler.
AfterFailureRetries(stage) == stage

\* the await the handler is at after a rejected statement: none, it has ended
AfterFailure(stage) == "idle"

\* await db.createOrUpdateUser(user) while the store is unreachable
SqlUpsertFails(h) ==
    /\ variant = "sql"
    /\ pc[h] = "upsert"
    /\ pc' = [pc EXCEPT ![h] = AfterFailure(pc[h])]
    /\ cur' = IF AfterFailure(pc[h]) = "idle" THEN [cur EXCEPT ![h] = NoMessage] ELSE cur
    /\ ret' = [op |-> "createOrUpdateUser", user |-> cur[h].from, threw |-> TRUE,
               existed |-> cur[h].from \in DOMAIN rows, cleared |-> {}]
    /\ UNCHANGED <<now, rows, counted>>
    /\ SqlFrame

\* await db.incrementStickerCount / incrementMessageCount while the store is
\* unreachable
SqlIncrementFails(h) ==
    /\ variant = "sql"
    /\ pc[h] = "increment"
    /\ ColumnOf(cur[h]) # Null
    /\ pc' = [pc EXCEPT ![h] = AfterFailure(pc[h])]
    /\ cur' = IF AfterFailure(pc[h]) = "idle" THEN [cur EXCEPT ![h] = NoMessage] ELSE cur
    /\ ret' = [op |-> "sqlIncrement", user |-> cur[h].from, threw |-> TRUE,
               sticker |-> cur[h].sticker, text |-> cur[h].text]
    /\ UNCHANGED <<now, rows, counted>>
    /\ SqlFrame

NextOutage ==
    \/ \E h \in Handlers, msg \in SqlMessages : SqlReceive(h, msg)
    \/ \E h \in Handlers : SqlUpsert(h)
    \/ \E h \in Handlers : SqlIncrement(h)
    \/ \E h \in Handlers : SqlUpsertFails(h)
    \/ \E h \in Handlers : SqlIncrementFails(h)

SpecOutage == InitSql /\ [][NextOutage]_vars

\* --------------------------------------------- SQL bot: several instances
\* Several bot instances share the users table; each runs the message handler,
\* and the store executes one statement at a time.
MaxInstances == 2

Instances == 1..MaxInstances

InitRace ==
    /\ variant = "sql"
    /\ now = 0
    /\ userData = InitialUserData
    /\ dataFile = NoFile
    /\ backups = << >>
    /\ ret = NoRet
    /\ rateLimits = << >>
    /\ limit = 0
    /\ windowMs = 0
    /\ accepted = << >>
    /\ calls = << >>
    /\ userActivity = << >>
    /\ rows = << >>
    /\ pc = [h \in Instances |-> "idle"]
    /\ cur = [h \in Instances |-> NoMessage]
    /\ counted = << >>
    /\ PollerOff

\* the instances race on one user: every message of user 1
RaceMessages == {msg \in SqlMessages : msg.from = 1}

NextRace ==
    \/ \E h \in Instances, msg \in RaceMessages : SqlReceive(h, msg)
    \/ \E h \in Instances : SqlUpsert(h)
    \/ \E h \in Instances : SqlIncrement(h)

SpecRace == InitRace /\ [][NextRace]_vars

\* ------------------------------------------------------ every variant
InitAll == InitFile \/ InitMem \/ InitSql

\* the ledger calls of the data manager, without the leaderboard
NextLedger ==
    \/ \E u \in UserIds : GetUser(u)
    \/ \E u \in UserIds, p \in CounterUpdates : UpdateUser(u, p)
    \/ \E u \in UserIds, type \in {"sticker", "text", "photo"} : IncrementUserActivity(u, type)
    \/ \E kind \in ForeignKinds : RestoreForeign(kind)

NextAll == NextLedger \/ NextMem \/ NextSql

SpecAll == InitAll /\ [][NextAll]_vars

\* ------------------------------------------------- leaderboard on any store
\* getLeaderboard reads the store and changes nothing: it is checked on every
\* store of up to MaxBoardUsers records the ledger can build, and on the
\* three-record table of the /simpleleaderboard test.
MaxBoardUsers == 3
MaxBoardCount == 2

BoardIds == 1..MaxBoardUsers

BoardUser(userId, m, c) ==
    [NewUser(userId, 0) EXCEPT !.messageCount = m, !.stickerCount = c, !.totalActivity = m + c]

\* messages 0..MaxBoardCount, stickers 0 or 1
BoardStores ==
    UNION {[ids -> {BoardUser(0, m, c) : m \in 0..MaxBoardCount, c \in 0..1}] : ids \in SUBSET BoardIds}

ExampleUsers ==
    (1 :> BoardUser(1, 10, 5)) @@ (2 :> BoardUser(2, 8, 3)) @@ (3 :> BoardUser(3, 5, 2))

InitBoardFile ==
    /\ variant = "file"
    /\ now = 0
    /\ \E store \in BoardStores \cup {ExampleUsers} :
          userData = [InitialUserData EXCEPT
                         !.users = [u \in DOMAIN store |-> [store[u] EXCEPT !.id = u]]]
    /\ dataFile = NoFile
    /\ backups = << >>
    /\ ret = NoRet
    /\ rateLimits = << >>
    /\ limit = 0
    /\ windowMs = 0
    /\ accepted = << >>
    /\ calls = << >>
    /\ userActivity = << >>
    /\ rows = << >>
    /\ pc = << >>
    /\ cur = << >>
    /\ counted = << >>
    /\ PollerOff

\* the same stores as rows of the users table
BoardRow(userId, user) ==
    [id |-> userId, username |-> Null, first_name |-> Null, last_name |-> Null,
     message_count |-> user.messageCount, sticker_count |-> user.stickerCount,
     last_activity |-> 0]

InitBoardSql ==
    /\ variant = "sql"
    /\ now = 0
    /\ userData = InitialUserData
    /\ dataFile = NoFile
    /\ backups = << >>
    /\ ret = NoRet
    /\ rateLimits = << >>
    /\ limit = 0
    /\ windowMs = 0
    /\ accepted = << >>
    /\ calls = << >>
    /\ userActivity = << >>
    /\ \E store \in BoardStores \cup {ExampleUsers} :
          rows = [u \in DOMAIN store |-> BoardRow(u, store[u])]
    /\ pc = [h \in Handlers |-> "idle"]
    /\ cur = [h \in Handlers |-> NoMessage]
    /\ counted = << >>
    /\ PollerOff

InitBoard == InitBoardFile \/ InitBoardSql

BoardLimits == 0..MaxBoardUsers + 1 \cup {DefaultLimit}

NextBoard ==
    \/ \E k \in BoardLimits : Leaderboard(k)
    \/ \E k \in BoardLimits : SqlLeaderboard(k)

SpecBoard == InitBoard /\ [][NextBoard]_vars


\* ------------------------------------------------------ file-backed bot
\* The bot of bot.js:235-284 on top of the data manager. Its clock is in
\* milliseconds.
MsPerDay == 86400000
MsPerHour == 3600000
HoursPerDay == 24

\* new Date().toISOString().split('T')[0]
Day(t) == t \div MsPerDay

\* new Date().getHours()
Hour(t) == (t \div MsPerHour) % HoursPerDay

\* obj[key] = (obj[key] || 0) + 1
Bumped(obj, key) ==
    [k \in DOMAIN obj \cup {key} |->
        IF k = key THEN (IF key \in DOMAIN obj THEN obj[key] ELSE 0) + 1 ELSE obj[k]]

\* Keys every object literal inherits from Object.prototype: obj[key] reads the
\* inherited function, which is neither undefined nor falsy.
PrototypeKeys == {"constructor"}

\* what a counter holds once it is not a count: NaN after ++ on a function, a
\* string after function + 1
NotANumber == -1

\* obj[key]++ / obj[key] = obj[key] + 1 on an inherited key: the object gets
\* its own key, holding a value that is not a count, and keeps it
Spoiled(obj, key) ==
    [k \in DOMAIN obj \cup {key} |-> IF k = key THEN NotANumber ELSE obj[k]]

\* trackInteraction(userId, type, command); an empty command is falsy
TrackInteraction(analytics, type, command, t) ==
    [analytics EXCEPT
        !.totalInteractions = @ + 1,
        !.messageTypes = IF type \in PrototypeKeys THEN Spoiled(@, type)
                         ELSE IF type \in DOMAIN @ THEN [@ EXCEPT ![type] = @ + 1]
                         ELSE [@ EXCEPT !.other = @ + 1],
        !.commandUsage = IF command \in {Null, ""} THEN @
                         ELSE IF command \in PrototypeKeys THEN Spoiled(@, command)
                         ELSE Bumped(@, command),
        !.dailyStats = Bumped(@, Day(t)),
        !.hourlyStats = Bumped(@, Hour(t))]

ChatTypes == {"private", "group", "supergroup"}

BotTexts == TextInputs \cup SlashTexts

\* an update of the transport: sender, chat, payload kinds, text, display names
BotMessages ==
    [from : UserIds, chat : ChatTypes, sticker : BOOLEAN, photo : BOOLEAN,
     video : BOOLEAN, document : BOOLEAN, voice : BOOLEAN, text : BotTexts,
     first_name : NameInputs, username : NameInputs]

\* getMessageType: the first payload kind present, in this order
GetMessageTypeTextFirst(msg) ==
    IF msg.text # Undefined THEN "text"
    ELSE IF msg.sticker THEN "sticker"
    ELSE IF msg.photo THEN "photo"
    ELSE IF msg.video THEN "video"
    ELSE IF msg.document THEN "document"
    ELSE IF msg.voice THEN "voice"
    ELSE "other"

GetMessageType(msg) ==
    IF msg.sticker THEN "sticker"
    ELSE IF msg.photo THEN "photo"
    ELSE IF msg.video THEN "video"
    ELSE IF msg.document THEN "document"
    ELSE IF msg.voice THEN "voice"
    ELSE IF msg.text # Undefined THEN "text"
    ELSE "other"

\* msg.chat.type === 'group' || msg.chat.type === 'supergroup'
IsGroupChat(msg) == msg.chat \in {"group", "supergroup"}

\* msg.text.split(' ')[0].substring(1)
CommandOf(text) == IF text = "/start" THEN "start" ELSE "myprogress"

\* updateUser(userId, {username, firstName}) on the userData object
WithUpdatedUser(data, userId, updates, t) ==
    [GetUserData(data, userId, t) EXCEPT !.users[userId] = UpdatedUser(@, updates, t)]

\* incrementUserActivity(userId, type) on the userData object
WithIncrementedUser(data, userId, type, t) ==
    [GetUserData(data, userId, t) EXCEPT !.users[userId] = IncrementedUser(@, type, t)]

\* handleCommand: only /myprogress touches the store (getUser)
HandledCommand(data, userId, command, t) ==
    IF command = "myprogress" THEN GetUserData(data, userId, t) ELSE data

\* a command: trackInteraction(userId, 'command', command), then handleCommand
OnCommand(data, msg, t1, t2) ==
    LET command == CommandOf(msg.text)
        tracked == [data EXCEPT !.analytics = TrackInteraction(@, "command", command, t1)]
    IN  HandledCommand(tracked, msg.from, command, t2)

\* a group message: updateUser, trackInteraction, incrementUserActivity
OnGroupMessage(data, msg, t1, t2, t3) ==
    LET named == WithUpdatedUser(data, msg.from,
                     [username |-> msg.username, firstName |-> msg.first_name], t1)
        tracked == [named EXCEPT !.analytics = TrackInteraction(@, GetMessageType(msg), Null, t2)]
    IN  WithIncrementedUser(tracked, msg.from, GetMessageType(msg), t3)

\* a private message handled as a group message is
OnPrivateMessageCounts(data, msg, t1) == OnGroupMessage(data, msg, t1, t1, t1)

\* a private message: updateUser only
OnPrivateMessage(data, msg, t1) ==
    WithUpdatedUser(data, msg.from,
        [username |-> msg.username, firstName |-> msg.first_name], t1)

\* bot.on('message'); the handler never consults the rate limiter. On a
\* userData without users/analytics the first call throws and the handler's
\* catch leaves everything as it was.
BotMessage(msg) ==
    /\ variant = "file"
    /\ \E t1, t2, t3 \in Times :
        /\ now <= t1 /\ t1 <= t2 /\ t2 <= t3
        /\ now' = t3
        /\ IF ~userData.has
           THEN /\ UNCHANGED userData
                /\ ret' = [op |-> "botMessage", user |-> msg.from, threw |-> TRUE]
           ELSE /\ userData' =
                      IF IsCommand(msg) THEN OnCommand(userData, msg, t1, t3)
                      ELSE IF IsGroupChat(msg) THEN OnGroupMessage(userData, msg, t1, t2, t3)
                      ELSE OnPrivateMessage(userData, msg, t3)
                /\ ret' = [op |-> "botMessage", user |-> msg.from, threw |-> FALSE,
                           command |-> IsCommand(msg), group |-> IsGroupChat(msg),
                           type |-> GetMessageType(msg), t |-> t3]
    /\ UNCHANGED <<dataFile, backups>>
    /\ FileFrame

MaxBotEvents == 1

\* the updates the bot is fed: text and commands with or without a sticker, a
\* photo on its own, an update with no payload the bot knows; the sender's two
\* display names present or absent together
BotUpdates ==
    {msg \in BotMessages :
        /\ ~msg.video /\ ~msg.document /\ ~msg.voice
        /\ msg.photo => (~msg.sticker /\ msg.text = Undefined)
        /\ (msg.username = Undefined) <=> (msg.first_name = Undefined)}

NextBot ==
    \E msg \in BotUpdates :
        /\ userData.has => userData.analytics.totalInteractions < MaxBotEvents
        /\ BotMessage(msg)

SpecBot == InitFile /\ [][NextBot]_vars

\* One sender writing text and stickers into a group, as fast as the clock allows
MaxFlood == 31

FloodMessages ==
    {msg \in BotUpdates :
        /\ msg.chat = "group" /\ msg.text = "hi"
        /\ ~msg.photo /\ ~msg.video /\ ~msg.document /\ ~msg.voice
        /\ msg.first_name = Undefined /\ msg.username = Undefined}

NextFlood ==
    \E msg \in FloodMessages :
        /\ userData.analytics.totalInteractions < MaxFlood
        /\ BotMessage(msg)

SpecFlood == InitFile /\ [][NextFlood]_vars

\* ------------------------------------------- file-backed bot: persistence
\* The bot between saves, exits and restarts: group messages are handled, the
\* five-minute timer and /save call saveData, a signal saves and exits, and
\* the process starts again from the data file (after an exit, or after a
\* crash at any point). Handlers and saveData are synchronous: each runs to
\* its end before the event loop takes the next callback.
\* text and stickers written into a group, by senders with and without names
PersistMessages ==
    {msg \in BotUpdates : msg.chat = "group" /\ msg.text = "hi" /\ ~msg.photo}

NextPersist ==
    \/ /\ Running
       /\ \E msg \in PersistMessages :
             /\ userData.has => userData.analytics.totalInteractions < MaxBotEvents
             /\ BotMessage(msg)
    \/ Running /\ SaveData
    \/ Running /\ Shutdown
    \/ Restart
    \/ Running /\ \E kind \in ForeignKinds : RestoreForeign(kind)

SpecPersist == InitFile /\ [][NextPersist]_vars

\* ------------------------------------------- data manager: record lifecycle
\* Everything that adds records to the store or takes records out of it: the
\* get-or-create of getUser and of updateUser, backups and restores, and the
\* load of the data file when the process starts.
NextLifecycle ==
    \/ \E u \in UserIds : GetUser(u)
    \/ \E u \in UserIds, p \in ResetUpdates : UpdateUser(u, p)
    \/ CreateBackup
    \/ \E n \in Times : RestoreBackup(n)
    \/ \E kind \in ForeignKinds : RestoreForeign(kind)
    \/ Restart

SpecLifecycle == InitBackup /\ [][NextLifecycle]_vars

\* ------------------------------------------------ data manager: analytics
\* trackInteraction called with the types and commands a caller can pass: the
\* tags of getMessageType, 'command', the default 'message', and names that
\* are keys of Object.prototype (a user can send /constructor).
MaxTracks == 2

TrackTypes == {"text", "sticker", "other", "command", "message"} \cup PrototypeKeys

TrackCommands == {Null, "", "start"} \cup PrototypeKeys

Track(userId, type, command) ==
    /\ variant = "file"
    /\ userData.analytics.totalInteractions < MaxTracks
    /\ \E t \in Times :
        /\ Clock(t)
        /\ userData' = [userData EXCEPT !.analytics = TrackInteraction(@, type, command, t)]
    /\ ret' = [op |-> "trackInteraction", user |-> userId, threw |-> FALSE,
               type |-> type, command |-> command]
    /\ UNCHANGED <<dataFile, backups>>
    /\ FileFrame

NextTrack == \E u \in UserIds, type \in TrackTypes, command \in TrackCommands : Track(u, type, command)

SpecTrack == InitFile /\ [][NextTrack]_vars

\* ------------------------------------------- data manager: backup rotation
\* Backups taken one after another, over more milliseconds than the directory
\* keeps files.
MaxRotationTime == 11

RotationTimes == 0..MaxRotationTime

NextRotation ==
    \/ \E u \in UserIds : GetUser(u)
    \/ CreateBackupWithin(RotationTimes, KeepBackups + 1)

SpecRotation == InitFile /\ [][NextRotation]_vars

\* ----------------------------------------------- file-backed bot: /myprogress
\* /myprogress on stores of more users than the leaderboard's default limit:
\* every user has sent one group message or none.
MaxProgressUsers == 11
MaxProgressCalls == 1

ProgressIds == 1..MaxProgressUsers

ProgressStores ==
    UNION {[1..n -> {BoardUser(0, m, 0) : m \in 0..1}] : n \in 1..MaxProgressUsers}

InitProgress ==
    /\ variant = "file"
    /\ now = 0
    /\ \E store \in ProgressStores :
          userData = [InitialUserData EXCEPT
                         !.users = [u \in DOMAIN store |-> [store[u] EXCEPT !.id = u]]]
    /\ dataFile = NoFile
    /\ backups = << >>
    /\ ret = NoRet
    /\ rateLimits = << >>
    /\ limit = 0
    /\ windowMs = 0
    /\ accepted = << >>
    /\ calls = << >>
    /\ userActivity = << >>
    /\ rows = << >>
    /\ pc = << >>
    /\ cur = << >>
    /\ counted = << >>
    /\ PollerOff

RECURSIVE FindIndex(_, _)
\* .findIndex(u => u.id === userId) + 1: the 1-based place of the first entry
\* with this id, 0 when there is none
FindIndex(board, userId) ==
    IF board = << >> THEN 0
    ELSE IF board[Len(board)].id = userId /\ FindIndex(SubSeq(board, 1, Len(board) - 1), userId) = 0
         THEN Len(board)
         ELSE FindIndex(SubSeq(board, 1, Len(board) - 1), userId)

\* getLeaderboard(): the limit is left at its default
ProgressBoardLimit(users) == DefaultLimit

\* const rank = getLeaderboard().findIndex(u => u.id === userId) + 1
ProgressRank(data, userId) ==
    FindIndex(GetLeaderboard(data.users, ProgressBoardLimit(data.users)), userId)

\* the message handler on the text /myprogress: trackInteraction, then
\* handleCommand's getUser, rank and report
MyProgress(userId) ==
    /\ variant = "file"
    /\ userData.analytics.totalInteractions < MaxProgressCalls
    /\ userData' = OnCommand(userData, [from |-> userId, text |-> "/myprogress"], now, now)
    /\ ret' = [op |-> "myprogress", user |-> userId, threw |-> FALSE,
               rank |-> ProgressRank(userData', userId),
               line |-> IF ProgressRank(userData', userId) > 0 THEN "#rank" ELSE "Unranked"]
    /\ UNCHANGED <<now, dataFile, backups>>
    /\ FileFrame

NextProgress == \E u \in ProgressIds : MyProgress(u)

SpecProgress == InitProgress /\ [][NextProgress]_vars

\* ------------------------------------------- SQL bot: start-up and polling
\* simple-bot.js holds two builds of the SQL bot.  "initializeApp" awaits
\* db.initDB() and then startPolling(), which retries with a counter;
\* "callback" calls startPolling() and then db.initDB() at module load and
\* retries from the callback of bot.startPolling.  What bot.startPolling and
\* pool.query do is the library's: either may succeed or fail, and the library
\* emits polling_error once it has been asked to poll.
MAX_RETRIES == 5

\* the callback build retries without a counter: its starts are capped here
MaxStarts == 3

Builds == {"initializeApp", "callback"}

\* error.code of a polling_error: 409 is the conflict with another instance
ErrorCodes == {409, 502}

\* the catch of startPolling schedules another attempt
CanRetryOnceMore(count) == count <= MAX_RETRIES

CanRetry(count) == count < MAX_RETRIES

\* the polling_error handler gives up
GivesUp(count) == count >= MAX_RETRIES

PollFrame == UNCHANGED <<variant, now, userData, dataFile, backups, rateLimits, limit,
                         windowMs, accepted, calls, userActivity, rows, pc, cur, counted>>

Alive == variant = "poll" /\ proc.exit = "running"

PollRet(op) == [op |-> op, user |-> 0, threw |-> FALSE]

\* initializeApp() has called db.initDB(); nothing else has run
InitInitializeApp ==
    /\ isActiveInstance = FALSE
    /\ pollingInterval = FALSE
    /\ retryCount = 0
    /\ proc = [build |-> "initializeApp", db |-> "awaiting", at |-> "initDB",
               timer |-> FALSE, exit |-> "running", starts |-> 0, resolved |-> FALSE]

\* module load of the callback build: startPolling() has called
\* bot.startPolling, then db.initDB() was called
InitCallback ==
    /\ isActiveInstance = FALSE
    /\ pollingInterval = FALSE
    /\ retryCount = 0
    /\ proc = [build |-> "callback", db |-> "awaiting", at |-> "awaitStart",
               timer |-> FALSE, exit |-> "running", starts |-> 1, resolved |-> FALSE]

InitPoll ==
    /\ variant = "poll"
    /\ now = 0
    /\ userData = InitialUserData
    /\ dataFile = NoFile
    /\ backups = << >>
    /\ ret = NoRet
    /\ rateLimits = << >>
    /\ limit = 0
    /\ windowMs = 0
    /\ accepted = << >>
    /\ calls = << >>
    /\ userActivity = << >>
    /\ rows = << >>
    /\ pc = << >>
    /\ cur = << >>
    /\ counted = << >>
    /\ (InitInitializeApp \/ InitCallback)

\* startPolling up to its await: stopPolling(), then bot.startPolling is called
EnterStartPolling ==
    /\ pollingInterval' = FALSE
    /\ isActiveInstance' = FALSE
    /\ UNCHANGED retryCount

\* await db.initDB() of initializeApp: on success startPolling() is called, on
\* failure the catch exits with code 1
InitDBSettles(ok) ==
    /\ Alive
    /\ proc.build = "initializeApp"
    /\ proc.at = "initDB"
    /\ IF ok
       THEN /\ EnterStartPolling
            /\ proc' = [proc EXCEPT !.db = "ready", !.at = "awaitStart", !.starts = @ + 1]
       ELSE /\ proc' = [proc EXCEPT !.db = "failed", !.at = "done", !.exit = "exit1"]
            /\ UNCHANGED <<isActiveInstance, pollingInterval, retryCount>>
    /\ ret' = [PollRet("initDB") EXCEPT !.threw = ~ok]
    /\ PollFrame

\* await bot.startPolling resolved: the flag is set, the counter reset, the
\* instance check interval started
StartResolves ==
    /\ Alive
    /\ proc.build = "initializeApp"
    /\ proc.at = "awaitStart"
    /\ isActiveInstance' = TRUE
    /\ retryCount' = 0
    /\ pollingInterval' = TRUE
    /\ proc' = [proc EXCEPT !.at = "idle", !.resolved = TRUE]
    /\ ret' = PollRet("startResolves")
    /\ PollFrame

\* await bot.startPolling rejected: the catch of startPolling
StartRejects ==
    /\ Alive
    /\ proc.build = "initializeApp"
    /\ proc.at = "awaitStart"
    /\ IF CanRetry(retryCount)
       THEN /\ retryCount' = retryCount + 1
            /\ proc' = [proc EXCEPT !.at = "idle", !.timer = TRUE]
       ELSE /\ proc' = [proc EXCEPT !.at = "done", !.exit = "exit1"]
            /\ UNCHANGED retryCount
    /\ ret' = [PollRet("startRejects") EXCEPT !.threw = TRUE]
    /\ UNCHANGED <<isActiveInstance, pollingInterval>>
    /\ PollFrame

\* the setTimeout(startPolling, delay) of the catch fires
RetryTimer ==
    /\ Alive
    /\ proc.build = "initializeApp"
    /\ proc.timer
    /\ EnterStartPolling
    /\ proc' = [proc EXCEPT !.timer = FALSE, !.at = "awaitStart", !.starts = @ + 1]
    /\ ret' = PollRet("retryTimer")
    /\ PollFrame

\* the instance check interval fires
InstanceCheck ==
    /\ Alive
    /\ proc.build = "initializeApp"
    /\ pollingInterval
    /\ IF ~isActiveInstance
       THEN /\ pollingInterval' = FALSE
            /\ proc' = [proc EXCEPT !.at = "done", !.exit = "exit0"]
       ELSE /\ UNCHANGED <<pollingInterval, proc>>
    /\ ret' = PollRet("instanceCheck")
    /\ UNCHANGED <<isActiveInstance, retryCount>>
    /\ PollFrame

\* bot.on('polling_error') of the initializeApp build
PollingError(code) ==
    /\ Alive
    /\ proc.build = "initializeApp"
    /\ proc.starts > 0
    /\ IF code = 409
       THEN /\ isActiveInstance' = FALSE
            /\ retryCount' = retryCount + 1
            /\ proc' = IF GivesUp(retryCount + 1)
                       THEN [proc EXCEPT !.at = "done", !.exit = "exit1"]
                       ELSE proc
       ELSE UNCHANGED <<isActiveInstance, retryCount, proc>>
    /\ ret' = [op |-> "pollingError", user |-> 0, threw |-> FALSE, code |-> code]
    /\ UNCHANGED pollingInterval
    /\ PollFrame

\* SIGINT or SIGTERM: stopPolling is the handler, and it does not exit
Signal ==
    /\ Alive
    /\ proc.build = "initializeApp"
    /\ pollingInterval' = FALSE
    /\ isActiveInstance' = FALSE
    /\ ret' = PollRet("signal")
    /\ UNCHANGED <<retryCount, proc>>
    /\ PollFrame

\* db.initDB().catch(console.error) of the callback build
CallbackInitDBSettles(ok) ==
    /\ Alive
    /\ proc.build = "callback"
    /\ proc.db = "awaiting"
    /\ proc' = [proc EXCEPT !.db = IF ok THEN "ready" ELSE "failed"]
    /\ ret' = [PollRet("initDB") EXCEPT !.threw = ~ok]
    /\ UNCHANGED <<isActiveInstance, pollingInterval, retryCount>>
    /\ PollFrame

\* the callback of bot.startPolling in the callback build: an error sets the
\* 5 second timer
CallbackStartSettles(ok) ==
    /\ Alive
    /\ proc.build = "callback"
    /\ proc.at = "awaitStart"
    /\ proc' = [proc EXCEPT !.at = "idle", !.timer = ~ok, !.resolved = @ \/ ok]
    /\ ret' = [PollRet("startCallback") EXCEPT !.threw = ~ok]
    /\ UNCHANGED <<isActiveInstance, pollingInterval, retryCount>>
    /\ PollFrame

\* setTimeout(startPolling, 5000) of the callback build fires
CallbackRetryTimer ==
    /\ Alive
    /\ proc.build = "callback"
    /\ proc.timer
    /\ proc.starts < MaxStarts
    /\ proc' = [proc EXCEPT !.timer = FALSE, !.at = "awaitStart", !.starts = @ + 1]
    /\ ret' = PollRet("retryTimer")
    /\ UNCHANGED <<isActiveInstance, pollingInterval, retryCount>>
    /\ PollFrame

NextPoll ==
    \/ \E ok \in BOOLEAN : InitDBSettles(ok)
    \/ StartResolves
    \/ StartRejects
    \/ RetryTimer
    \/ InstanceCheck
    \/ \E code \in ErrorCodes : PollingError(code)
    \/ Signal
    \/ \E ok \in BOOLEAN : CallbackInitDBSettles(ok)
    \/ \E ok \in BOOLEAN : CallbackStartSettles(ok)
    \/ CallbackRetryTimer

SpecPoll == InitPoll /\ [][NextPoll]_vars

\* a run no signal is sent to: every pending await settles, every timer that
\* is set fires and the interval keeps firing; polling errors come or not
NextPollFair ==
    \/ \E ok \in BOOLEAN : InitDBSettles(ok)
    \/ StartResolves
    \/ StartRejects
    \/ RetryTimer
    \/ InstanceCheck
    \/ \E code \in ErrorCodes : PollingError(code)
    \/ \E ok \in BOOLEAN : CallbackInitDBSettles(ok)
    \/ \E ok \in BOOLEAN : CallbackStartSettles(ok)
    \/ CallbackRetryTimer

SpecPollFair ==
    /\ InitPoll
    /\ [][NextPollFair]_vars
    /\ WF_vars(\E ok \in BOOLEAN : InitDBSettles(ok))
    /\ WF_vars(StartResolves \/ StartRejects)
    /\ WF_vars(RetryTimer)
    /\ WF_vars(InstanceCheck)

\* ---------------------------------------------------- classification
\* getMessageType is a function of the payload kinds alone: it is applied to
\* every combination of them.
ClassifyInputs ==
    {msg \in BotMessages :
        /\ msg.chat = "private"
        /\ msg.first_name = Undefined /\ msg.username = Undefined}

Classify(msg) ==
    /\ variant = "classify"
    /\ ret' = [op |-> "getMessageType", user |-> msg.from, threw |-> FALSE,
               msg |-> msg, val |-> GetMessageType(msg)]
    /\ UNCHANGED <<variant, now, userData, dataFile, backups, rateLimits, limit,
                   windowMs, accepted, calls, userActivity, rows, pc, cur, counted, pollerVars>>

InitClassify ==
    /\ variant = "classify"
    /\ now = 0
    /\ userData = InitialUserData
    /\ dataFile = NoFile
    /\ backups = << >>
    /\ ret = NoRet
    /\ rateLimits = << >>
    /\ limit = 0
    /\ windowMs = 0
    /\ accepted = << >>
    /\ calls = << >>
    /\ userActivity = << >>
    /\ rows = << >>
    /\ pc = << >>
    /\ cur = << >>
    /\ counted = << >>
    /\ PollerOff

NextClassify == \E msg \in ClassifyInputs : Classify(msg)

SpecClassify == InitClassify /\ [][NextClassify]_vars

\* ================================================================ claims

\* the counters of a user in each variant; 0 while the user has no record
FileCount(data, userId, field) ==
    IF data.has /\ userId \in DOMAIN data.users THEN data.users[userId][field] ELSE 0

\* C1: in the file-backed ledger every stored record has
\* totalActivity = messageCount + stickerCount, whatever getUser, updateUser
\* (with patches naming messageCount, stickerCount or totalActivity) and
\* incrementUserActivity calls were made.
C1_TotalActivityInSync ==
    (variant = "file" /\ userData.has) =>
        \A u \in DOMAIN userData.users :
            userData.users[u].totalActivity =
                userData.users[u].messageCount + userData.users[u].stickerCount

\* an updateUser whose patch named a totalActivity other than the sum has run
C1_Witness ==
    /\ ret.op = "updateUser"
    /\ ~ret.threw
    /\ "totalActivity" \in DOMAIN ret.updates
    /\ ret.updates.totalActivity #
           userData.users[ret.user].messageCount + userData.users[ret.user].stickerCount

\* one counted event raised the sticker counter alone
OnlySticker(m, c, m2, c2) == c2 = c + 1 /\ m2 = m
\* one counted event raised the message counter alone
OnlyMessage(m, c, m2, c2) == m2 = m + 1 /\ c2 = c

\* C2 as claimed: every recorded non-command event raises exactly one counter by
\* one, stickerCount for a sticker and messageCount for anything else, in the
\* file-backed ledger, the in-memory bot and the SQL bot alike.
C2_OriginalStep ==
    /\ (ret'.op = "incrementUserActivity" /\ ~ret'.threw) =>
          LET u == ret'.user
              m == FileCount(userData, u, "messageCount")
              c == FileCount(userData, u, "stickerCount")
              m2 == FileCount(userData', u, "messageCount")
              c2 == FileCount(userData', u, "stickerCount")
          IN  IF ret'.type = "sticker" THEN OnlySticker(m, c, m2, c2)
              ELSE OnlyMessage(m, c, m2, c2)
    /\ (ret'.op = "memMessage" /\ ~IsCommand(ret'.msg)) =>
          LET u == ret'.user
              m == MemCount(userActivity, u, "messageCount")
              c == MemCount(userActivity, u, "stickerCount")
              m2 == MemCount(userActivity', u, "messageCount")
              c2 == MemCount(userActivity', u, "stickerCount")
          IN  IF ret'.msg.sticker THEN OnlySticker(m, c, m2, c2)
              ELSE OnlyMessage(m, c, m2, c2)
    /\ ret'.op = "sqlIncrement" =>
          LET u == ret'.user
              m == SqlCount(rows, u, "message_count")
              c == SqlCount(rows, u, "sticker_count")
              m2 == SqlCount(rows', u, "message_count")
              c2 == SqlCount(rows', u, "sticker_count")
          IN  IF ret'.sticker THEN OnlySticker(m, c, m2, c2)
              ELSE OnlyMessage(m, c, m2, c2)

C2_Original == [][C2_OriginalStep]_vars

\* C2 as amended: incrementUserActivity raises exactly one counter by one
\* (stickerCount for type sticker, messageCount for any other type); the
\* in-memory and SQL message handlers raise stickerCount for a sticker,
\* messageCount for text without a sticker, and neither counter for an event
\* that carries neither; no event raises both.
C2_AmendedStep ==
    /\ (ret'.op = "incrementUserActivity" /\ ~ret'.threw) =>
          LET u == ret'.user
              m == FileCount(userData, u, "messageCount")
              c == FileCount(userData, u, "stickerCount")
              m2 == FileCount(userData', u, "messageCount")
              c2 == FileCount(userData', u, "stickerCount")
          IN  IF ret'.type = "sticker" THEN OnlySticker(m, c, m2, c2)
              ELSE OnlyMessage(m, c, m2, c2)
    /\ (ret'.op = "memMessage" /\ ~IsCommand(ret'.msg)) =>
          LET u == ret'.user
              m == MemCount(userActivity, u, "messageCount")
              c == MemCount(userActivity, u, "stickerCount")
              m2 == MemCount(userActivity', u, "messageCount")
              c2 == MemCount(userActivity', u, "stickerCount")
          IN  IF ret'.msg.sticker THEN OnlySticker(m, c, m2, c2)
              ELSE IF ret'.msg.text # Undefined THEN OnlyMessage(m, c, m2, c2)
              ELSE m2 = m /\ c2 = c
    /\ ret'.op = "sqlIncrement" =>
          LET u == ret'.user
              m == SqlCount(rows, u, "message_count")
              c == SqlCount(rows, u, "sticker_count")
              m2 == SqlCount(rows', u, "message_count")
              c2 == SqlCount(rows', u, "sticker_count")
          IN  IF ret'.sticker THEN OnlySticker(m, c, m2, c2)
              ELSE IF ret'.text # Undefined THEN OnlyMessage(m, c, m2, c2)
              ELSE m2 = m /\ c2 = c

C2_Amended == [][C2_AmendedStep]_vars

\* the in-memory bot has handled an event with neither sticker nor text, and the
\* sender's counters are both still zero
C2_Witness ==
    /\ ret.op = "memMessage"
    /\ ~ret.msg.sticker
    /\ ret.msg.text = Undefined
    /\ ret.user \in DOMAIN userActivity
    /\ userActivity[ret.user].messageCount = 0
    /\ userActivity[ret.user].stickerCount = 0

\* C3: getUser is get-or-create with at most one creation: a second getUser for
\* the same userId returns the record of the first and creates or resets
\* nothing, and each userId has one record (the one stored under its key
\* carries its id); in the file-backed ledger and the in-memory bot.
C3_GetOrCreateOnce ==
    /\ (variant = "file" /\ userData.has) =>
          /\ \A u \in DOMAIN userData.users : userData.users[u].id = u
          /\ \A u \in UserIds, t \in Times :
                LET first == GetUserData(userData, u, t)
                IN  /\ HasUser(userData, u) => first = userData
                    /\ first.users[u].id = u
                    /\ \A t2 \in Times : t2 >= t => GetUserData(first, u, t2) = first
          /\ (ret.op = "getUser" /\ ret.again) => ~ret.created
    /\ variant = "mem" =>
          \A u \in UserIds :
              LET first == MemGetUser(userActivity, u)
              IN  /\ u \in DOMAIN userActivity => first = userActivity
                  /\ MemGetUser(first, u) = first

\* getUser has run twice in a row for one user, the second time later than the
\* record's creation
C3_Witness ==
    /\ ret.op = "getUser"
    /\ ~ret.threw
    /\ ret.again
    /\ userData.users[ret.user].firstSeen < now

\* C4 as claimed: getUser never fails and never returns absent; for a userId
\* without a record it returns a new record with all counters zero, in every
\* reachable state, restoreBackup included.
C4_GetUserNeverFails ==
    ret.op = "getUser" =>
        /\ ~ret.threw
        /\ ret.created =>
              /\ userData.users[ret.user].messageCount = 0
              /\ userData.users[ret.user].stickerCount = 0
              /\ userData.users[ret.user].totalActivity = 0

\* the totalActivity of a leaderboard entry and of a stored record, per variant
EntryTotal(entry) == IF variant = "sql" THEN entry.total_activity ELSE entry.totalActivity

StoreIds == IF variant = "sql" THEN DOMAIN rows ELSE DOMAIN userData.users

StoreTotal(userId) ==
    IF variant = "sql" THEN SqlTotal(rows[userId]) ELSE userData.users[userId].totalActivity

IsBoard == ret.op \in {"getLeaderboard", "sqlLeaderboard"} /\ ~ret.threw

Returned(board) == {board[i].id : i \in DOMAIN board}

\* C5: for every store and every k >= 0 the leaderboard has at most k entries,
\* in non-increasing totalActivity order, and no record left out has a
\* strictly larger totalActivity than a returned one (file-backed and SQL).
C5_TopNBoundedSorted ==
    IsBoard =>
        /\ Len(ret.val) <= ret.k
        /\ \A i, j \in DOMAIN ret.val :
              i < j => EntryTotal(ret.val[i]) >= EntryTotal(ret.val[j])
        /\ \A u \in StoreIds \ Returned(ret.val) :
              \A i \in DOMAIN ret.val : StoreTotal(u) <= EntryTotal(ret.val[i])

\* a leaderboard cut at k >= 2 entries of different totals, with an active
\* record left out
C5_Witness ==
    /\ ret.op = "getLeaderboard"
    /\ ret.k >= 2
    /\ Len(ret.val) = ret.k
    /\ ret.val[1].totalActivity > ret.val[2].totalActivity
    /\ \E u \in StoreIds \ Returned(ret.val) : StoreTotal(u) > 0

C7_NoZeroActivity ==
    (variant = "file" /\ ret.op = "getLeaderboard") =>
        /\ ~ret.threw
        /\ \A i \in DOMAIN ret.val : ret.val[i].totalActivity > 0
        /\ (\A u \in DOMAIN userData.users : userData.users[u].totalActivity = 0) =>
              ret.val = << >>

\* a store that holds records, none of them active, was asked for k > 0 entries
C7_Witness ==
    /\ variant = "file"
    /\ ret.op = "getLeaderboard"
    /\ ret.k > 0
    /\ DOMAIN userData.users # {}
    /\ \A u \in DOMAIN userData.users : userData.users[u].totalActivity = 0
    /\ ret.val = << >>

\* how many of the timestamps lie in the window (t - window, t]
InWindow(times, t, window) ==
    Cardinality({i \in DOMAIN times : times[i] > t - window /\ times[i] <= t})

\* the timestamps accepted for the caller of the last call, before that call
AcceptedBefore ==
    LET all == AcceptedOf(ret.user)
    IN  IF ret.val THEN SubSeq(all, 1, Len(all) - 1) ELSE all

\* C8: with a clock that never runs backwards, at most limit accepted calls of
\* one identifier have their timestamps in any window (t - windowMs, t]; and
\* while every call so far lies within windowMs of the first, the n-th call is
\* accepted exactly when n <= limit (limit 3: true, true, true, false).
C8_SlidingWindowBound ==
    variant = "rate" =>
        /\ \A identifier \in Identifiers, t \in 0..MaxClock :
              InWindow(AcceptedOf(identifier), t, windowMs) <= limit
        /\ (ret.op = "checkRateLimit" /\ ret.t - CallsOf(ret.user).first < windowMs) =>
              (ret.val <=> CallsOf(ret.user).n <= limit)

\* limit 3: the fourth call inside the window of the first is refused
C8_Witness ==
    /\ ret.op = "checkRateLimit"
    /\ limit = 3
    /\ CallsOf(ret.user).n = 4
    /\ ret.t - CallsOf(ret.user).first < windowMs
    /\ ~ret.val
    /\ Len(AcceptedOf(ret.user)) = 3

\* C9: a rejected call stores nothing, so rejected attempts never count: a call
\* is rejected only while limit accepted timestamps are inside its window.
C9_RejectStep ==
    (ret'.op = "checkRateLimit" /\ calls' # calls /\ ~ret'.val) =>
        \A identifier \in Identifiers :
            Requests(rateLimits', identifier) = Requests(rateLimits, identifier)

C9_RejectedRecordsNothing ==
    /\ [][C9_RejectStep]_vars
    /\ [](ret.op = "checkRateLimit" /\ ~ret.val =>
              InWindow(AcceptedOf(ret.user), ret.t, windowMs) >= limit)

\* a call was accepted after at least two rejected ones
C9_Witness ==
    /\ ret.op = "checkRateLimit"
    /\ ret.val
    /\ limit >= 1
    /\ CallsOf(ret.user).n >= Len(AcceptedOf(ret.user)) + 2

\* C10 as claimed: only entries strictly older than now - windowMs are pruned,
\* so a request accepted at exactly now - windowMs still counts against the limit.
C10_BoundaryCounts ==
    ret.op = "checkRateLimit" =>
        (Cardinality({i \in DOMAIN AcceptedBefore : AcceptedBefore[i] >= ret.t - windowMs})
             >= limit => ~ret.val)

\* C10 as amended: entries at or before now - windowMs are pruned; a call is
\* accepted exactly when fewer than limit accepted timestamps are strictly
\* newer than now - windowMs, and after an accepted call every stored
\* timestamp is strictly newer than now - windowMs.
C10_BoundaryPruned ==
    ret.op = "checkRateLimit" =>
        /\ ret.val <=>
              Cardinality({i \in DOMAIN AcceptedBefore : AcceptedBefore[i] > ret.t - windowMs})
                  < limit
        /\ ret.val =>
              \A i \in DOMAIN rateLimits[ret.user] :
                  rateLimits[ret.user][i] > ret.t - windowMs

\* limit 1: a call exactly windowMs after an accepted call was accepted
C10_Witness ==
    /\ ret.op = "checkRateLimit"
    /\ limit = 1
    /\ ret.val
    /\ \E i \in DOMAIN AcceptedBefore : AcceptedBefore[i] = ret.t - windowMs

\* the limit and window the rate limiter defaults to, and the README promises
RequestsPerMinute == 30
MinuteMs == 60000

\* C11 as claimed: the running bot processes (counts) at most 30 messages of
\* one sender within any 60-second window.
C11_ThirtyPerMinute ==
    (variant = "file" /\ userData.has) =>
        \A u \in DOMAIN userData.users :
            userData.users[u].lastSeen - userData.users[u].firstSeen < MinuteMs
                => userData.users[u].totalActivity <= RequestsPerMinute

\* the last call restored a backup that createBackup wrote
RestoredFromBackup ==
    /\ ret.op = "restoreBackup"
    /\ ret.val
    /\ ret.file[1] = "backup"

\* a getUser right after such a restore, for a user the backup does not hold
C12_FreshAfterRestoreStep ==
    (RestoredFromBackup /\ ret'.op = "getUser" /\ ret'.user \notin DOMAIN userData.users) =>
        /\ ~ret'.threw
        /\ ret'.created
        /\ userData'.users[ret'.user].messageCount = 0
        /\ userData'.users[ret'.user].stickerCount = 0
        /\ userData'.users[ret'.user].totalActivity = 0

\* C12: after a successful restoreBackup of a file written by createBackup the
\* visible record set is exactly the record set of the file: users absent from it
\* are gone (the next getUser creates a fresh zero record) and the users in it
\* have the counters recorded in it.
C12_RestoreReplacesRecords ==
    /\ [](RestoredFromBackup =>
              /\ userData.has
              /\ userData.users = backups[ret.file[2]].users)
    /\ [][C12_FreshAfterRestoreStep]_vars

\* a restore removed a record that existed before it
C12_Witness ==
    /\ RestoredFromBackup
    /\ ret.dropped # {}
    /\ userData.users = << >>

\* the file named in a restoreBackup call is missing, unparseable, or parseable
\* without users/analytics/metadata
MalformedOrMissing(file) ==
    \/ file[1] \in ForeignKinds
    \/ file[1] = "backup" /\ file[2] \notin DOMAIN backups

C13_FailedRestoreStep ==
    (ret'.op = "restoreBackup" /\ MalformedOrMissing(ret'.file)) =>
        /\ ~ret'.val
        /\ userData' = userData

\* C13 as claimed: restoreBackup of a missing or malformed backup file reports
\* failure and leaves users, analytics and metadata as they were.
C13_FailedRestoreKeepsState == [][C13_FailedRestoreStep]_vars

CounterFields == {"messageCount", "stickerCount"}

\* the users that have a record before and after the step
Surviving == DOMAIN UsersOf(userData) \cap DOMAIN UsersOf(userData')

C18_NeverLoweredStep ==
    \A u \in Surviving, f \in CounterFields :
        userData'.users[u][f] >= userData.users[u][f]

\* C18 as claimed: the counters are non-negative and no operation on the ledger
\* lowers a counter of a record that exists before and after it.
C18_Monotone ==
    /\ [](\A u \in DOMAIN UsersOf(userData), f \in CounterFields : userData.users[u][f] >= 0)
    /\ [][C18_NeverLoweredStep]_vars

C18_AmendedStep ==
    \A u \in Surviving, f \in CounterFields :
        /\ ret'.op \in {"getUser", "incrementUserActivity", "createBackup"} =>
              userData'.users[u][f] >= userData.users[u][f]
        /\ ret'.op = "updateUser" =>
              userData'.users[u][f] =
                  IF u = ret'.user /\ f \in DOMAIN ret'.updates
                  THEN ret'.updates[f] ELSE userData.users[u][f]
        /\ (ret'.op = "restoreBackup" /\ ret'.val /\ ret'.file[1] = "backup") =>
              userData'.users[u][f] = backups[ret'.file[2]].users[u][f]

\* C18 as amended: the counters are non-negative; getUser and
\* incrementUserActivity never lower one; updateUser changes a counter only when
\* its patch names it, and then sets it to the patch's value; restoreBackup sets
\* every counter to the value in the backup. The last two can lower a counter.
C18_MonotoneButPatchAndRestore ==
    /\ [](\A u \in DOMAIN UsersOf(userData), f \in CounterFields : userData.users[u][f] >= 0)
    /\ [][C18_AmendedStep]_vars

\* a restore brought a record back whose counters had grown since the backup
C18_Witness ==
    /\ RestoredFromBackup
    /\ ret.lowered # {}

\* the claimed precedence, highest first
Precedence == <<"sticker", "photo", "video", "document", "voice", "text", "other">>

\* the payload kind is present in the message; 'other' always is
Present(msg, kind) ==
    IF kind = "other" THEN TRUE
    ELSE IF kind = "text" THEN msg.text # Undefined
    ELSE msg[kind]

\* C14: getMessageType returns the kind of highest precedence in sticker >
\* photo > video > document > voice > text > other that the event carries,
\* 'other' when it carries none; sticker with text is classified sticker.
C14_FirstMatchPrecedence ==
    ret.op = "getMessageType" =>
        /\ \E i \in DOMAIN Precedence :
              /\ ret.val = Precedence[i]
              /\ Present(ret.msg, Precedence[i])
              /\ \A j \in 1..(i - 1) : ~Present(ret.msg, Precedence[j])
        /\ (ret.msg.sticker /\ ret.msg.text # Undefined) => ret.val = "sticker"

\* an event with a sticker and a text was classified
C14_Witness ==
    /\ ret.op = "getMessageType"
    /\ ret.msg.sticker
    /\ ret.msg.text = "hi"
    /\ ret.val = "sticker"

C16_NoLostUpdate ==
    variant = "sql" =>
        \A u \in DOMAIN rows :
            /\ rows[u].message_count = CountedOf(u).message_count
            /\ rows[u].sticker_count = CountedOf(u).sticker_count

\* an instance completed its message increment while another instance was
\* between its upsert and its message increment for the same user
C16_Witness ==
    /\ ret.op = "sqlIncrement"
    /\ ~ret.sticker /\ ret.text # Undefined
    /\ rows[ret.user].message_count = 1
    /\ \E h \in DOMAIN pc :
          /\ pc[h] = "increment" /\ cur[h].from = ret.user
          /\ ~cur[h].sticker /\ cur[h].text # Undefined

C17_UpsertStep ==
    (ret'.op = "createOrUpdateUser" /\ pc' # pc) =>
        /\ \A u \in DOMAIN rows :
              /\ rows'[u].message_count = rows[u].message_count
              /\ rows'[u].sticker_count = rows[u].sticker_count
        /\ \A u \in DOMAIN rows' \ DOMAIN rows :
              rows'[u].message_count = 0 /\ rows'[u].sticker_count = 0

\* C17: createOrUpdateUser on a userId that has a row updates that row and
\* leaves message_count and sticker_count as they are, also between the
\* statements of other instances.
C17_UpsertKeepsCounters == [][C17_UpsertStep]_vars

\* an upsert met a row with a count while another instance was about to
\* increment the same row
C17_Witness ==
    /\ ret.op = "createOrUpdateUser"
    /\ ret.existed
    /\ rows[ret.user].message_count + rows[ret.user].sticker_count > 0
    /\ \E h1, h2 \in DOMAIN pc :
          /\ h1 # h2
          /\ pc[h1] = "increment" /\ cur[h1].from = ret.user
          /\ pc[h2] = "increment" /\ cur[h2].from = ret.user

C19_FirstSeenStep ==
    /\ ret'.op \in {"getUser", "updateUser", "incrementUserActivity"} =>
           \A u \in Surviving : userData'.users[u].firstSeen = userData.users[u].firstSeen
    /\ ret'.op = "getUser" =>
           \A u \in DOMAIN UsersOf(userData') \ DOMAIN UsersOf(userData) :
               userData'.users[u].firstSeen = now'

C20_EveryEventTouches ==
    (ret.op = "botMessage" /\ ~ret.threw) =>
        /\ ret.user \in DOMAIN userData.users
        /\ userData.users[ret.user].lastSeen = ret.t

C20_CommandStep ==
    (ret'.op = "botMessage" /\ ~ret'.threw /\ ret'.command) =>
        \A u \in Surviving : userData'.users[u].lastSeen = userData.users[u].lastSeen

\* C20 as amended: after the handler of a non-command event of user u, in a
\* group or a private chat, counted or not, u's lastSeen is the time of that
\* event; the handler of a command leaves the lastSeen of every existing record
\* as it was.
C20_MessagesTouchCommandsDoNot ==
    /\ []((ret.op = "botMessage" /\ ~ret.threw /\ ~ret.command) =>
              /\ ret.user \in DOMAIN userData.users
              /\ userData.users[ret.user].lastSeen = ret.t)
    /\ [][C20_CommandStep]_vars

\* a command of a user whose record was last touched before the command
C20_Witness ==
    /\ ret.op = "botMessage"
    /\ ~ret.threw
    /\ ret.command
    /\ ret.user \in DOMAIN userData.users
    /\ userData.users[ret.user].lastSeen < ret.t

\* the display columns of the users table and the field of msg.from each is
\* written from
DisplayColumns == {"username", "first_name", "last_name"}

C21_MergeStep ==
    \A h \in DOMAIN pc :
        (pc[h] = "upsert" /\ pc'[h] = "increment" /\ cur[h].from \in DOMAIN rows) =>
            \A f \in DisplayColumns :
                rows'[cur[h].from][f] =
                    IF cur[h].profile[f] = Undefined
                    THEN rows[cur[h].from][f]
                    ELSE cur[h].profile[f]

C21_AmendedStep ==
    \A h \in DOMAIN pc :
        (pc[h] = "upsert" /\ pc'[h] = "increment") =>
            \A f \in DisplayColumns :
                rows'[cur[h].from][f] =
                    IF cur[h].profile[f] = Undefined THEN Null ELSE cur[h].profile[f]

SameRecords(a, b) ==
    /\ DOMAIN a = DOMAIN b
    /\ \A u \in DOMAIN a :
          \A f \in DOMAIN a[u] \cup DOMAIN b[u] : Field(a[u], f) = Field(b[u], f)

\* the data file holds the users and analytics of data
Persisted(data) ==
    /\ dataFile.exists
    /\ dataFile.parses
    /\ SameRecords(dataFile.data.users, data.users)
    /\ dataFile.data.analytics = data.analytics

C25_FlushStep ==
    ret'.op = "saveData" =>
        /\ UsersOf(userData') = UsersOf(userData)
        /\ userData'.analytics = userData.analytics
        /\ ret'.wrote =>
              /\ dataFile'.exists
              /\ SameRecords(dataFile'.data.users, userData.users)
              /\ dataFile'.data.analytics = userData.analytics

C26_SavedOnShutdown ==
    (ret.op = "shutdown" /\ ret.wrote) => Persisted(userData)

\* an exit after a counted event
C26_Witness ==
    /\ ret.op = "shutdown"
    /\ ret.wrote
    /\ \E u \in DOMAIN userData.users : userData.users[u].totalActivity > 0
    /\ Persisted(userData)

C27_RestartStep ==
    (ret.op \in {"saveData", "shutdown"} /\ ret.wrote /\ ret'.op = "restart") =>
        /\ SameRecords(userData'.users, userData.users)
        /\ userData'.analytics = userData.analytics

\* C27: a restart that follows a save loads users and analytics that read the
\* same as those in memory at the time of the save.
C27_PersistsAcrossRestart == [][C27_RestartStep]_vars

\* a restart right after a save that wrote a counted event
C27_Witness ==
    /\ ret.op = "restart"
    /\ ret.afterSave
    /\ userData.analytics.totalInteractions > 0
    /\ \E u \in DOMAIN userData.users :
          userData.users[u].totalActivity > 0 /\ "username" \notin DOMAIN userData.users[u]

\* the records of the file a restoreBackup call names
RecordsOfFile(file) ==
    IF file[1] = "backup" /\ file[2] \in DOMAIN backups
    THEN UsersOf(backups[file[2]])
    ELSE << >>

\* after a successful restoreBackup the store holds the records of the file
C22_RestoredRecords ==
    (ret.op = "restoreBackup" /\ ret.val) => UsersOf(userData) = RecordsOfFile(ret.file)

C22_LifecycleStep ==
    /\ ret'.op \notin {"restoreBackup", "restart"} =>
          /\ DOMAIN UsersOf(userData) \subseteq DOMAIN UsersOf(userData')
          /\ DOMAIN UsersOf(userData') \ DOMAIN UsersOf(userData) \subseteq
                 (IF ret'.op \in {"getUser", "updateUser", "incrementUserActivity"}
                  THEN {ret'.user} ELSE {})
    /\ (ret'.op = "restoreBackup" /\ ~ret'.val) => UsersOf(userData') = UsersOf(userData)
    /\ ret'.op = "restart" =>
          UsersOf(userData') = (IF dataFile.exists THEN UsersOf(dataFile.data) ELSE << >>)

\* C22: a call adds a record only by get-or-create, and only the record of the
\* user it is made for; no call but restoreBackup takes a record out; a
\* successful restoreBackup leaves exactly the records of the file it names, all
\* of them in the one step, and a failed one leaves the records as they were.
\* (The process starting again loads the record set of the data file whole.)
C22_RecordLifecycle == []C22_RestoredRecords /\ [][C22_LifecycleStep]_vars

\* a restore took a record out of the store, and out of the data file with it
C22_Witness ==
    /\ RestoredFromBackup
    /\ ret.dropped # {}
    /\ dataFile.exists
    /\ UsersOf(dataFile.data) = << >>

\* the seven event-type buckets
Buckets == DOMAIN InitialAnalytics.messageTypes

\* the bucket a call of this type is claimed to count in
BucketOf(type) == IF type \in Buckets THEN type ELSE "other"

\* the count of a command; 0 while it has none
UsageOf(analytics, command) ==
    IF command \in DOMAIN analytics.commandUsage THEN analytics.commandUsage[command] ELSE 0

C23_TrackStep ==
    ret'.op = "trackInteraction" =>
        LET old == userData.analytics
            new == userData'.analytics
        IN  /\ ~ret'.threw
            /\ new.totalInteractions = old.totalInteractions + 1
            /\ \A b \in Buckets :
                  new.messageTypes[b] =
                      old.messageTypes[b] + (IF b = BucketOf(ret'.type) THEN 1 ELSE 0)
            /\ IF ret'.command \in {Null, ""}
               THEN new.commandUsage = old.commandUsage
               ELSE /\ DOMAIN new.commandUsage = DOMAIN old.commandUsage \cup {ret'.command}
                    /\ \A c \in DOMAIN new.commandUsage :
                          new.commandUsage[c] =
                              UsageOf(old, c) + (IF c = ret'.command THEN 1 ELSE 0)

\* C23 as claimed: every track call adds 1 to totalInteractions and 1 to exactly
\* one event-type bucket (the one named by the type when it is one of the seven,
\* 'other' otherwise), adds 1 to the counter of the command when one is supplied
\* and touches no command counter otherwise, and raises no error.
C23_TrackCounts == [][C23_TrackStep]_vars

\* the awaits a handler passes through for one event, in order
StageMoves ==
    {<<"idle", "upsert">>, <<"upsert", "increment">>, <<"upsert", "idle">>,
     <<"increment", "idle">>}

C24_FailureStep ==
    /\ \A h \in DOMAIN pc : pc'[h] # pc[h] => <<pc[h], pc'[h]>> \in StageMoves
    /\ (ret'.op \in {"createOrUpdateUser", "sqlIncrement"} /\ ret'.threw) =>
          /\ rows' = rows
          /\ counted' = counted
          /\ \E h \in DOMAIN pc : pc[h] # "idle" /\ pc'[h] = "idle"
          /\ \A h \in DOMAIN pc : pc'[h] = pc[h] \/ pc'[h] = "idle"

\* C24: a statement the store rejects is reported to the handler as a failure
\* and ends the handler: the statement is not sent again, no later statement of
\* that event is sent, every handler goes through upsert and increment once at
\* most per event, and the table, the user's counters included, is as before.
C24_FailureSurfacedNoRetry == [][C24_FailureStep]_vars

\* the increment of a text message failed: the row of its sender counts nothing
C24_Witness ==
    /\ ret.op = "sqlIncrement"
    /\ ret.threw
    /\ ~ret.sticker
    /\ ret.user \in DOMAIN rows
    /\ rows[ret.user].message_count = 0
    /\ \A h \in DOMAIN pc : pc[h] = "idle"

C28_RotationStep ==
    (ret'.op = "createBackup" /\ ret'.made) =>
        /\ DOMAIN backups' \subseteq DOMAIN backups \cup {ret'.val}
        /\ \A gone \in (DOMAIN backups \cup {ret'.val}) \ DOMAIN backups' :
              \A kept \in DOMAIN backups' : gone < kept

\* C28: after every successful createBackup at most 10 backup files exist and
\* the one just written is among them; the files a createBackup removes are
\* older than every file it keeps.
C28_BackupRotation ==
    /\ []((ret.op = "createBackup" /\ ret.made) =>
              /\ Cardinality(DOMAIN backups) <= KeepBackups
              /\ ret.val \in DOMAIN backups)
    /\ [][C28_RotationStep]_vars

\* the eleventh backup: the oldest file is gone
C28_Witness ==
    /\ ret.op = "createBackup"
    /\ ret.made
    /\ ret.removed # {}
    /\ Cardinality(DOMAIN backups) = KeepBackups
    /\ \A gone \in ret.removed : gone \notin DOMAIN backups

\* C29: the SQL leaderboard has no activity filter: asked for k entries it
\* returns min(k, number of rows) of them, rows whose message_count +
\* sticker_count is 0 included, so with k at least the number of rows every
\* row is returned.
C29_SqlBoardKeepsZeroRows ==
    (ret.op = "sqlLeaderboard" /\ ~ret.threw) =>
        /\ Len(ret.val) = (IF ret.k < Cardinality(DOMAIN rows)
                           THEN ret.k ELSE Cardinality(DOMAIN rows))
        /\ Returned(ret.val) \subseteq DOMAIN rows
        /\ Cardinality(Returned(ret.val)) = Len(ret.val)
        /\ ret.k >= Cardinality(DOMAIN rows) => Returned(ret.val) = DOMAIN rows

\* a leaderboard of the table that lists a row with no activity after an active one
C29_Witness ==
    /\ ret.op = "sqlLeaderboard"
    /\ Len(ret.val) >= 2
    /\ ret.val[1].total > 0
    /\ ret.val[Len(ret.val)].total = 0
    /\ SqlTotal(rows[ret.val[Len(ret.val)].id]) = 0

C30_UncountedStep ==
    (ret'.op = "botMessage" /\ ~ret'.threw /\ (ret'.command \/ ~ret'.group)) =>
        \A u \in UserIds : \A f \in {"messageCount", "stickerCount", "totalActivity"} :
            FileCount(userData', u, f) = FileCount(userData, u, f)

EveryAttemptFailed == proc.build = "initializeApp" /\ ~proc.resolved

C31_Attempts ==
    EveryAttemptFailed =>
        /\ proc.starts <= MAX_RETRIES + 1
        /\ (proc.starts = MAX_RETRIES + 1 /\ proc.at # "awaitStart") => proc.exit = "exit1"

C31_Reset ==
    (variant = "poll" /\ ret.op = "startResolves") => retryCount = 0

\* C31 as stated: while every attempt fails bot.startPolling is called at most
\* MAX_RETRIES + 1 times and the process exits with code 1 once the last of
\* them has failed; a successful start leaves retryCount at 0; and retryCount
\* is never above MAX_RETRIES.
C31_BoundedRetries ==
    /\ C31_Attempts
    /\ C31_Reset
    /\ retryCount <= MAX_RETRIES

\* C31 amended: the same bound on the attempts and the same reset; retryCount
\* is at most MAX_RETRIES while the process runs, and is MAX_RETRIES + 1 only
\* in a process the polling_error handler has ended with code 1.
C31_BoundedRetriesUntilExit ==
    /\ C31_Attempts
    /\ C31_Reset
    /\ retryCount <= MAX_RETRIES + 1
    /\ retryCount > MAX_RETRIES => (proc.exit = "exit1" /\ ret.op = "pollingError")

\* the sixth attempt failed and the process exited with code 1
C31_Witness ==
    /\ EveryAttemptFailed
    /\ proc.starts = MAX_RETRIES + 1
    /\ ret.op = "startRejects"
    /\ proc.exit = "exit1"
    /\ retryCount = MAX_RETRIES

\* the polling_error handler of the initializeApp build has just handled a 409
ConflictReceived ==
    /\ variant = "poll"
    /\ proc.build = "initializeApp"
    /\ ret.op = "pollingError"
    /\ ret.code = 409

\* C32: after a polling_error with code 409 the process eventually exits (with
\* code 1 from the handler, or with code 0 from the instance check), whenever
\* the 409 arrives relative to startPolling and the retry timer.
C32_ConflictLeadsToExit == ConflictReceived ~> (proc.exit \in {"exit0", "exit1"})

\* C33: in the SQL bot bot.startPolling is not called before db.initDB has
\* completed successfully, and a process whose initDB failed has exited with
\* code 1 without having called it.
C33_PollingAfterInitDB ==
    variant = "poll" =>
        /\ proc.starts > 0 => proc.db = "ready"
        /\ proc.db = "failed" => (proc.exit = "exit1" /\ proc.starts = 0)

C34_IncrementStep ==
    (ret'.op = "sqlIncrement" /\ (ret'.sticker \/ ret'.text # Undefined)) =>
        /\ ret'.user \in DOMAIN rows
        /\ DOMAIN rows' = DOMAIN rows
        /\ rows'[ret'.user].sticker_count =
               rows[ret'.user].sticker_count + (IF ret'.sticker THEN 1 ELSE 0)
        /\ rows'[ret'.user].message_count =
               rows[ret'.user].message_count + (IF ret'.sticker THEN 0 ELSE 1)
        /\ \A v \in DOMAIN rows \ {ret'.user} : rows'[v] = rows[v]

\* C34: in the SQL bot's message handler the increment statement of a message
\* with a sticker or a text runs after the handler's upsert, so it matches the
\* sender's row and raises exactly one of message_count and sticker_count of
\* that row by exactly 1, however the instances interleave.
C34_IncrementFindsRow == [][C34_IncrementStep]_vars

\* a sticker was counted while another instance had received a message of the
\* same user and not yet upserted
C34_Witness ==
    /\ ret.op = "sqlIncrement"
    /\ ret.sticker
    /\ rows[ret.user].sticker_count = 1
    /\ rows[ret.user].message_count = 0
    /\ \E h \in DOMAIN pc : pc[h] = "upsert" /\ cur[h].from = ret.user

\* the users of the store that are more active than u, and those at least as
\* active as u (u among them)
MoreActive(u) ==
    {v \in DOMAIN userData.users :
        userData.users[v].totalActivity > userData.users[u].totalActivity}

AsActive(u) ==
    {v \in DOMAIN userData.users :
        userData.users[v].totalActivity >= userData.users[u].totalActivity}

\* C35: /myprogress shows a user with totalActivity > 0 the rank r >= 1 that is
\* their place in the descending-activity order of all users (after every more
\* active user, among the equally active ones), and shows Unranked only to a
\* user with totalActivity = 0.
C35_PersonalRank ==
    ret.op = "myprogress" =>
        /\ userData.users[ret.user].totalActivity > 0 =>
              /\ ret.line = "#rank"
              /\ ret.rank > Cardinality(MoreActive(ret.user))
              /\ ret.rank <= Cardinality(AsActive(ret.user))
        /\ ret.line = "Unranked" => userData.users[ret.user].totalActivity = 0

RECURSIVE SumOfCounters(_)
\* the sum of the values an object holds; not a number once one of them is not
SumOfCounters(obj) ==
    IF DOMAIN obj = {} THEN 0
    ELSE LET k == CHOOSE key \in DOMAIN obj : TRUE
             rest == SumOfCounters([j \in DOMAIN obj \ {k} |-> obj[j]])
         IN  IF obj[k] = NotANumber \/ rest = NotANumber THEN NotANumber ELSE obj[k] + rest

\* C36: after any number of trackInteraction calls from the initial state,
\* totalInteractions equals the sum of the messageTypes buckets, the sum of the
\* dailyStats buckets and the sum of the hourlyStats buckets, and the sum of
\* the commandUsage counters is a number that is at most totalInteractions.
C36_AnalyticsConservation ==
    LET a == userData.analytics
    IN  /\ SumOfCounters(a.messageTypes) = a.totalInteractions
        /\ SumOfCounters(a.dailyStats) = a.totalInteractions
        /\ SumOfCounters(a.hourlyStats) = a.totalInteractions
        /\ SumOfCounters(a.commandUsage) # NotANumber
        /\ SumOfCounters(a.commandUsage) <= a.totalInteractions

\* the timestamps of identifier's accepted calls that are inside the window at t
AcceptedInWindow(identifier, t) ==
    {i \in DOMAIN AcceptedOf(identifier) : AcceptedOf(identifier)[i] > t - windowMs}

C37_CallStep ==
    ret'.op = "checkRateLimit" =>
        /\ \A b \in (DOMAIN rateLimits \cup DOMAIN rateLimits') \ {ret'.user} :
              /\ b \in DOMAIN rateLimits
              /\ b \in DOMAIN rateLimits'
              /\ rateLimits'[b] = rateLimits[b]
        /\ ret'.val <=> Cardinality(AcceptedInWindow(ret'.user, ret'.t)) < limit

\* C37: a checkRateLimit call for an identifier leaves the timestamps stored
\* for every other identifier as they were, and what a call returns is decided
\* by the accepted calls of its own identifier alone: it is accepted exactly
\* when fewer than limit of them are inside the window.
C37_PerIdentifier == [][C37_CallStep]_vars

\* an identifier is rejected at its limit, then another one is accepted at the
\* same instant
C37_Witness ==
    /\ ret.op = "checkRateLimit"
    /\ ret.val
    /\ limit > 0
    /\ \E b \in DOMAIN rateLimits \ {ret.user} :
          /\ Len(rateLimits[b]) = limit
          /\ CallsOf(b).n > limit
          /\ \A i \in DOMAIN rateLimits[b] : rateLimits[b][i] = ret.t

====
